---- MODULE Spec2Model ----
(***************************************************************************)
(* Webhook reconciliation core of the student database                     *)
(* (backend/app/routers/webhooks.py and the routers it shares the store    *)
(* with).  Strings that the code normalises or concatenates (emails,       *)
(* slugs, enrollment keys) are sequences of one-character strings, so that *)
(* lower(), strip() and f"{email}_{slug}" are computed, not assumed.        *)
(*                                                                         *)
(* A request is a small machine: Step gives the successors of one request  *)
(* at one database interaction.  Spec runs each handler to completion      *)
(* (single-writer, one request at a time); SpecConc interleaves the steps  *)
(* of several requests over the SQLite store (database.py), where a        *)
(* session that has flushed a write holds the write lock until it commits  *)
(* or is closed.                                                           *)
(***************************************************************************)
EXTENDS Integers, Sequences, FiniteSets, TLC

VARIABLES db, reqs, last, tagCalls, cfg

vars == <<db, reqs, last, tagCalls, cfg>>

(***************************************************************************)
(* Bounds                                                                  *)
(***************************************************************************)
MaxConc == 2        \* request slots handled concurrently in SpecConc
MaxTagCount == 2    \* tagging calls counted per (subscriber, tag), saturating
MaxApps == 1        \* scholarship applications in the store
MaxNumber == 3      \* sequence numbers and row ids in SpecDelete
MaxImported == 3    \* scholarship applications in the store in SpecImport
MaxStops == 1       \* times the handler of one delivery stops in SpecCrash

Slots == 1..MaxConc

(***************************************************************************)
(* Strings                                                                 *)
(***************************************************************************)
LowerChar(c) == CASE c = "A" -> "a" [] c = "B" -> "b" [] OTHER -> c

StrLower(s) == [i \in 1..Len(s) |-> LowerChar(s[i])]

RECURSIVE LStrip(_)
LStrip(s) == IF s # <<>> /\ Head(s) = " " THEN LStrip(Tail(s)) ELSE s

RECURSIVE RStrip(_)
RStrip(s) == IF s # <<>> /\ s[Len(s)] = " " THEN RStrip(SubSeq(s, 1, Len(s) - 1)) ELSE s

StrStrip(s) == RStrip(LStrip(s))

\* email.lower().strip()
CleanEmailNoLower(email) == StrStrip(email)

CleanEmail(email) == StrStrip(StrLower(email))

\* f"{student.email}_{product.product_id}"
EnrollmentKey(email, slug) == email \o <<"_">> \o slug

\* _split_name: first word, rest; "Unknown" when there is no word.
\* A name is the sequence of its whitespace-separated words.
SplitName(full_name) ==
    IF full_name = <<>> THEN [first |-> <<"Unknown">>, last |-> <<>>]
    ELSE [first |-> <<Head(full_name)>>, last |-> Tail(full_name)]

MaxOf(S) == CHOOSE x \in S : \A y \in S : y <= x

NextId(rows) == IF rows = {} THEN 1 ELSE MaxOf({r.id : r \in rows}) + 1

(***************************************************************************)
(* Offerings (the products table) and process-wide secrets                 *)
(***************************************************************************)
\* Two offerings: p is reachable through every provider and declares both
\* tags; q is reachable through the payment processor and the generic form.
NoFields == [f \in {} |-> ""]

Products ==
    { [id |-> 1, product_id |-> <<"p">>, product_name |-> <<"A", "i">>, kit_tag |-> "tag_p",
       stripe_price_id |-> "price_p", typeform_form_id |-> "form_p",
       typeform_field_map |-> [f \in {"q_city", "timezone", "q_rank"} |->
                                 CASE f = "q_city" -> "closest_city"
                                   [] f = "timezone" -> "country"
                                   [] OTHER -> "student_number"],
       kit_rsvp_tag |-> "rsvp_p", kit_onboarded_tag |-> "onb_p",
       completion_survey_form_id |-> "done_p",
       completion_survey_field_map |-> [f \in {"q_win", "satisfaction", "q_status"} |->
                                          CASE f = "q_win" -> "biggest_win"
                                            [] f = "satisfaction" -> "testimonial"
                                            [] OTHER -> "status"]],
      [id |-> 2, product_id |-> <<"q">>, product_name |-> <<"B", "i", "z">>, kit_tag |-> "",
       stripe_price_id |-> "price_q", typeform_form_id |-> "",
       typeform_field_map |-> NoFields,
       kit_rsvp_tag |-> "", kit_onboarded_tag |-> "",
       completion_survey_form_id |-> "",
       completion_survey_field_map |-> NoFields] }

NoProduct == 0

ProductById(pid) == CHOOSE p \in Products : p.id = pid

\* KIT_WEBHOOK_SECRET, STRIPE_WEBHOOK_SECRET, TYPEFORM_WEBHOOK_SECRET:
\* read from the environment once; "" disables the check.
Configs ==
    { [kit |-> "ks", stripe |-> "ss", typeform |-> "ts", kit_api |-> "text_errors"],
      [kit |-> "", stripe |-> "", typeform |-> "", kit_api |-> "text_errors"] }

(***************************************************************************)
(* The store: committed rows of students, enrollments, sales and           *)
(* scholarship applications.  0 stands for a NULL integer or foreign key.  *)
(***************************************************************************)
EmptyDb == [students |-> {}, enrollments |-> {}, sales |-> {}, apps |-> {}, products |-> {}]

\* The store a deployment starts from: the offerings are seeded, the other
\* tables are empty.
SeededDb == [EmptyDb EXCEPT !.products = Products]

\* The row of an offering, by primary key.
ProductRow(d, pid) == CHOOSE p \in d.products : p.id = pid

NoStudent == [id |-> 0, email |-> <<>>]

\* A response: HTTP code, the status field, the enrollment_id field and the
\* tagging flag of the JSON body ("" / <<>> / "none" when absent).
Resp(code, status, key, tagged) ==
    [code |-> code, status |-> status, enrollment_id |-> key, kit_rsvp_tagged |-> tagged,
     enriched_fields |-> {}, kit_tagged |-> "none", updated_fields |-> {}]

ErrResp(code) == Resp(code, "error", <<>>, "none")

NoResp == Resp(0, "", <<>>, "none")

NoEvent == [src |-> "none"]

\* One request: its position, its event, its session (whether it has flushed
\* writes and so holds the write lock, and its view of the store if so) and
\* the handler's local variables.
IdleReq ==
    [pc |-> "idle", ev |-> NoEvent, intx |-> FALSE, view |-> EmptyDb,
     product |-> NoProduct, email |-> <<>>, first |-> <<>>, lastn |-> <<>>,
     student |-> NoStudent, max_num |-> 0, sale_id |-> 0, existing |-> 0,
     app |-> 0, parsed |-> <<>>, updated |-> {}, kit_tagged |-> "none",
     resp |-> NoResp]

\* What a session reads: its own transaction's view once it has written,
\* the committed store before.
View(r, d) == IF r.intx THEN r.view ELSE d

\* The result of a step: the request, the committed store, the tag calls.
Out(r, d, t) == [r |-> r, db |-> d, tags |-> t]

\* The handler returns (or raises): get_db closes the session, which rolls
\* back whatever was flushed and not committed.
Done(r, resp) ==
    [IdleReq EXCEPT !.pc = "done", !.ev = r.ev, !.resp = resp]

\* Where a handler continues once it holds its Student.
AfterStudentSkipEnrich(src) ==
    CASE src = "stripe" -> "find_sale"
      [] OTHER -> "find_enr"

AfterStudent(src) ==
    CASE src = "stripe" -> "find_sale"
      [] src = "typeform" -> "enrich"
      [] OTHER -> "find_enr"

(***************************************************************************)
(* Outbound tagging: calls of kit_tag_subscriber_by_email, counted per     *)
(* (email, tag) up to MaxTagCount.                                          *)
(***************************************************************************)
NoTagCalls == [k \in {} |-> 0]

TagCount(t, k) == IF k \in DOMAIN t THEN t[k] ELSE 0

TagCall(t, email, tag) ==
    LET k == <<email, tag>>
        n == IF TagCount(t, k) < MaxTagCount THEN TagCount(t, k) + 1 ELSE MaxTagCount
    IN [x \in DOMAIN t \cup {k} |-> IF x = k THEN n ELSE t[x]]

UniqueEmailOnly(rows, col, value) ==
    col = "student_number" \/ \A r \in rows : r[col] # value

\* What one request to the tagging service's API can come to: the expected
\* JSON, a JSON without the expected entry (no such subscriber, no tag), no
\* API key, an HTTP error, any other exception of urlopen.  cfg.kit_api says
\* whether the service's error bodies are always readable UTF-8 text;
\* where they are not, an HTTP error can have a body that
\* e.read().decode() refuses.
ApiOutcomes ==
    {"json", "empty", "no_api_key", "http_error", "exception"}
      \cup (IF cfg.kit_api = "text_errors" THEN {} ELSE {"http_error_unreadable"})

\* _kit_api_request, lines 128-144: None without a key, None on HTTPError
\* and on any other exception of urlopen; the HTTPError handler itself raises
\* when the error body cannot be read and decoded (line 140).
KitApiRequest(outcome) ==
    CASE outcome \in {"json", "empty"} -> outcome
      [] outcome = "http_error_unreadable" -> "raise"
      [] OTHER -> "none"

\* kit_tag_subscriber_by_email, lines 176-187, for the outcomes of its three
\* requests: subscriber lookup, tag find-or-create, tag attachment.
KitTagSubscriberByEmail(lookup, tag, attach) ==
    LET s == KitApiRequest(lookup)
        g == KitApiRequest(tag)
        a == KitApiRequest(attach)
    IN IF s = "raise" THEN "raise"
       ELSE IF s # "json" THEN "false"
       ELSE IF g = "raise" THEN "raise"
       ELSE IF g # "json" THEN "false"
       ELSE IF a = "raise" THEN "raise"
       ELSE IF a = "none" THEN "false"
       ELSE "true"

TagResults ==
    {KitTagSubscriberByEmail(s, g, a) : s \in ApiOutcomes, g \in ApiOutcomes, a \in ApiOutcomes}

(***************************************************************************)
(* Storage constraints (models.py): UNIQUE columns.  An INSERT that breaks *)
(* one raises IntegrityError.                                               *)
(***************************************************************************)
NoUniqueCheck(rows, col, value) == TRUE

UniqueOk(rows, col, value) == \A r \in rows : r[col] # value

(***************************************************************************)
(* _find_or_create_student                                                 *)
(***************************************************************************)
NullV == <<"null">>

Val(x) == <<"val", x>>

\* The nullable columns of the students table that the onboarding survey can
\* fill (_STUDENT_FIELDS without email, first_name, last_name).
StudentAttrs ==
    {"preferred_name", "alternative_email", "country", "timezone", "closest_city",
     "dob", "gender", "learn_about_course", "consent_images", "consent_photo_on_site",
     "what_made_you_join", "get_from", "here_for", "claude_confidence_level"}

\* _ENROLLMENT_SURVEY_FIELDS: the columns of the enrollments table that the
\* completion survey can fill.
EnrollmentSurveyFields ==
    {"biggest_win", "three_things_learned", "confidence_after", "satisfaction",
     "recommend_score", "testimonial", "improvement_suggestion",
     "interest_longer_program", "followup_topics", "beginner_friendly_rating",
     "expected_learning_not_covered", "anything_else",
     "transformational_score", "delivered_on_promise_score"}

NewStudent(view, num, email, first, lastn) ==
    [id |-> NextId(view.students), student_number |-> num, email |-> email,
     first_name |-> first, last_name |-> lastn,
     attrs |-> [f \in StudentAttrs |-> NullV], onboarding_date |-> NullV]

FindStudentExact(r, d, t) ==
    LET found == {s \in View(r, d).students : s.email = r.email}
    IN IF found = {}
       THEN {Out([r EXCEPT !.pc = "max_num"], d, t)}
       ELSE {Out([r EXCEPT !.pc = AfterStudent(r.ev.src),
                           !.student = [id |-> s.id, email |-> s.email]], d, t)
             : s \in found}

FindStudentRenaming(r, d, t) ==
    LET clean == CleanEmail(r.email)
        found == {s \in View(r, d).students : StrLower(s.email) = clean}
        renamed(s) == {IF x.id = s.id
                       THEN [x EXCEPT !.first_name = r.first, !.last_name = r.lastn]
                       ELSE x : x \in d.students}
    IN IF found = {}
       THEN {Out([r EXCEPT !.pc = "max_num"], d, t)}
       ELSE {Out([r EXCEPT !.pc = AfterStudent(r.ev.src),
                           !.student = [id |-> s.id, email |-> s.email]],
                 [d EXCEPT !.students = renamed(s)], t)
             : s \in found}

\* lines 41-42: the lookup by lower(Student.email) = clean_email.  first()
\* has no ORDER BY: any matching row may be returned.
FindStudent(r, d, t) ==
    LET clean == CleanEmail(r.email)
        found == {s \in View(r, d).students : StrLower(s.email) = clean}
    IN IF found = {}
       THEN {Out([r EXCEPT !.pc = "max_num"], d, t)}
       ELSE {Out([r EXCEPT !.pc = AfterStudent(r.ev.src),
                           !.student = [id |-> s.id, email |-> s.email]], d, t)
             : s \in found}

\* line 45: max(student_number) or 0
ReadMaxNum(r, d, t) ==
    LET nums == {s.student_number : s \in View(r, d).students}
    IN {Out([r EXCEPT !.pc = "add_student",
                      !.max_num = IF nums = {} THEN 0 ELSE MaxOf(nums)], d, t)}

\* lines 46-53: db.add(student); db.flush().  The INSERT takes the write
\* lock (free: no other session holds it) and is checked against the UNIQUE
\* columns email and student_number.
AddStudent(r, d, t, free) ==
    IF ~(free \/ r.intx) THEN {}
    ELSE LET view == View(r, d)
             clean == CleanEmail(r.email)
             s == NewStudent(view, r.max_num + 1, clean, r.first, r.lastn)
         IN IF /\ UniqueOk(view.students, "email", clean)
               /\ UniqueOk(view.students, "student_number", s.student_number)
            THEN {Out([r EXCEPT !.pc = AfterStudent(r.ev.src), !.intx = TRUE,
                                !.view = [view EXCEPT !.students = @ \cup {s}],
                                !.student = [id |-> s.id, email |-> s.email]], d, t)}
            ELSE {Out(Done(r, ErrResp(500)), d, t)}

(***************************************************************************)
(* _create_enrollment                                                      *)
(***************************************************************************)
\* The response of a handler that ends in _create_enrollment; the onboarding
\* handler adds enriched_fields and kit_tagged (lines 616-618).
EnrollResp(r, d, status, tagged) ==
    [code |-> 200, status |-> status,
     enrollment_id |-> EnrollmentKey(r.student.email, ProductRow(View(r, d), r.product).product_id),
     kit_rsvp_tagged |-> tagged,
     enriched_fields |-> r.updated, kit_tagged |-> r.kit_tagged, updated_fields |-> {}]

\* lines 68-77: look the key up; an existing row gets the sale only when the
\* request has one and the row has none.
LinkNeededAlways(sale_id, existing_sale_id) == sale_id # 0

LinkNeededNever(sale_id, existing_sale_id) == FALSE

LinkNeeded(sale_id, existing_sale_id) == sale_id # 0 /\ existing_sale_id = 0

FindEnrollmentTagging(r, d, t) ==
    LET key == EnrollmentKey(r.student.email, ProductRow(View(r, d), r.product).product_id)
        found == {e \in View(r, d).enrollments : e.enrollment_id = key}
    IN IF found = {}
       THEN {Out([r EXCEPT !.pc = "add_enr"], d, t)}
       ELSE {IF LinkNeeded(r.sale_id, e.sale_id)
             THEN Out([r EXCEPT !.pc = "link_sale", !.existing = e.id], d, t)
             ELSE Out([r EXCEPT !.pc = "tag_rsvp"], d, t)
             : e \in found}

FindEnrollment(r, d, t) ==
    LET key == EnrollmentKey(r.student.email, ProductRow(View(r, d), r.product).product_id)
        found == {e \in View(r, d).enrollments : e.enrollment_id = key}
    IN IF found = {}
       THEN {Out([r EXCEPT !.pc = "add_enr"], d, t)}
       ELSE {IF LinkNeeded(r.sale_id, e.sale_id)
             THEN Out([r EXCEPT !.pc = "link_sale", !.existing = e.id], d, t)
             ELSE Out(Done(r, EnrollResp(r, d, "already_enrolled", "none")), d, t)
             : e \in found}

LinkSaleRecreating(r, d, t, free) ==
    IF ~(free \/ r.intx) THEN {}
    ELSE LET view == View(r, d)
             rows == {IF e.id = r.existing
                      THEN [e EXCEPT !.sale_id = r.sale_id, !.id = NextId(view.enrollments)]
                      ELSE e
                      : e \in view.enrollments}
         IN {Out(Done(r, EnrollResp(r, d, "already_enrolled", "none")),
                 [view EXCEPT !.enrollments = rows], t)}

LinkSaleRetagging(r, d, t, free) ==
    IF ~(free \/ r.intx) THEN {}
    ELSE LET view == View(r, d)
             rows == {IF e.id = r.existing
                      THEN [e EXCEPT !.sale_id = r.sale_id, !.source = r.ev.src] ELSE e
                      : e \in view.enrollments}
         IN {Out(Done(r, EnrollResp(r, d, "already_enrolled", "none")),
                 [view EXCEPT !.enrollments = rows], t)}

\* lines 74-75: existing.sale_id = sale_id; db.commit()
LinkSale(r, d, t, free) ==
    IF ~(free \/ r.intx) THEN {}
    ELSE LET view == View(r, d)
             rows == {IF e.id = r.existing THEN [e EXCEPT !.sale_id = r.sale_id] ELSE e
                      : e \in view.enrollments}
         IN {Out(Done(r, EnrollResp(r, d, "already_enrolled", "none")),
                 [view EXCEPT !.enrollments = rows], t)}

\* lines 79-88: insert the Enrollment and commit.
AddEnrollment(r, d, t, free) ==
    IF ~(free \/ r.intx) THEN {}
    ELSE LET view == View(r, d)
             product == ProductRow(View(r, d), r.product)
             key == EnrollmentKey(r.student.email, product.product_id)
             e == [id |-> NextId(view.enrollments), enrollment_id |-> key,
                   status |-> "Paying Customer (Full-fee)", source |-> r.ev.src,
                   student_id |-> r.student.id, product_id |-> product.id,
                   sale_id |-> r.sale_id,
                   survey |-> [f \in EnrollmentSurveyFields |-> NullV],
                   survey_response_type |-> NullV, survey_submit_date |-> NullV]
         IN IF UniqueOk(view.enrollments, "enrollment_id", key)
            THEN LET committed == [view EXCEPT !.enrollments = @ \cup {e}]
                     mine == [r EXCEPT !.intx = FALSE, !.view = EmptyDb]
                 IN IF product.kit_rsvp_tag # ""
                    THEN {Out([mine EXCEPT !.pc = "tag_rsvp"], committed, t)}
                    ELSE {Out(Done(r, EnrollResp(r, d, "enrolled", "none")), committed, t)}
            ELSE {Out(Done(r, ErrResp(500)), d, t)}

\* lines 92-105: the post-enrollment tag; its outcome is only a flag.
TagRsvp(r, d, t) ==
    {Out(Done(r, IF res = "raise" THEN ErrResp(500) ELSE EnrollResp(r, d, "enrolled", res)), d,
         TagCall(t, r.student.email, ProductRow(View(r, d), r.product).kit_rsvp_tag))
     : res \in TagResults}

(***************************************************************************)
(* Signature verifiers                                                     *)
(***************************************************************************)
\* HMAC-SHA256 as an ideal keyed hash: equal digests only for equal key and
\* message.
Hmac(secret, msg) == <<"hmac", secret, msg>>

\* dict(item.split("=", 1) for item in sig_header.split(",")): an item is
\* <<key, value>>, or <<text>> when it holds no "="; the last value of a key
\* wins.
RECURSIVE HeaderGet(_, _, _)
HeaderGet(items, key, default) ==
    IF items = <<>> THEN default
    ELSE LET it == items[Len(items)]
         IN IF it[1] = key THEN it[2]
            ELSE HeaderGet(SubSeq(items, 1, Len(items) - 1), key, default)

VerifyStripeIgnoringBody(payload, sig_header, secret) ==
    /\ \A i \in 1..Len(sig_header) : Len(sig_header[i]) = 2
    /\ HeaderGet(sig_header, "v1", <<>>) # <<>>

\* _verify_stripe_signature: a malformed item raises inside the try, which
\* returns False.
VerifyStripeSignature(payload, sig_header, secret) ==
    /\ \A i \in 1..Len(sig_header) : Len(sig_header[i]) = 2
    /\ LET timestamp == HeaderGet(sig_header, "t", "")
           signature == HeaderGet(sig_header, "v1", <<>>)
       IN Hmac(secret, <<timestamp, payload>>) = signature

\* _verify_typeform_signature: "sha256=" + base64(hmac(secret, body))
VerifyTypeformSignature(payload, sig_header, secret) ==
    <<"sha256=", Hmac(secret, payload)>> = sig_header

(***************************************************************************)
(* Handler entry: authentication, payload checks, offering lookup, then    *)
(* the Student lookup of _find_or_create_student.                           *)
(***************************************************************************)
Resolve(r, d, t, product, email, names) ==
    FindStudent([r EXCEPT !.product = product.id, !.email = email,
                          !.first = names.first, !.lastn = names.last], d, t)

KitAuthSkipped(secret, configured) == TRUE

\* lines 215-218 and 367-370: exact match with the configured secret.
KitAuthOk(secret, configured) == configured = "" \/ secret = configured

\* kit_tag_added, lines 215-229
KitBegin(r, d, t) ==
    LET ev == r.ev
        found == {p \in d.products : p.kit_tag = ev.kit_tag}
    IN IF ~KitAuthOk(ev.secret, cfg.kit) THEN {Out(Done(r, ErrResp(401)), d, t)}
       ELSE IF found = {} THEN {Out(Done(r, ErrResp(404)), d, t)}
       ELSE UNION {Resolve(r, d, t, p, ev.email, SplitName(ev.first_name)) : p \in found}

\* form_submission, lines 367-387
FormBegin(r, d, t) ==
    LET ev == r.ev
        found == {p \in d.products : p.product_id = ev.product_id}
        names == IF ev.first_name # <<>>
                 THEN [first |-> ev.first_name, last |-> ev.last_name]
                 ELSE IF ev.name # <<>> THEN SplitName(ev.name)
                 ELSE [first |-> <<"Unknown">>, last |-> <<>>]
    IN IF ~KitAuthOk(ev.secret, cfg.kit) THEN {Out(Done(r, ErrResp(401)), d, t)}
       ELSE IF found = {} THEN {Out(Done(r, ErrResp(404)), d, t)}
       ELSE UNION {Resolve(r, d, t, p, ev.email, names) : p \in found}

StripeProductsPriceFirst(products, session) ==
    LET price_id == IF session.meta_price_id # "" THEN session.meta_price_id
                    ELSE session.line_price_id
        by_price == IF price_id # ""
                    THEN {p \in products : p.stripe_price_id = price_id}
                    ELSE {}
    IN IF by_price # {} THEN by_price
       ELSE IF session.meta_product_id # <<>>
       THEN {p \in products : p.product_id = session.meta_product_id}
       ELSE {}

StripeProductsOrAny(products, session) ==
    LET by_meta == {p \in products : p.product_id = session.meta_product_id}
    IN IF by_meta # {} THEN by_meta ELSE products

\* stripe_checkout, lines 262-281: the offering by metadata product_id, else
\* by the price id (metadata price_id, else the first line item's).
StripeProducts(products, session) ==
    LET price_id == IF session.meta_price_id # "" THEN session.meta_price_id
                    ELSE session.line_price_id
        by_meta == IF session.meta_product_id # <<>>
                   THEN {p \in products : p.product_id = session.meta_product_id}
                   ELSE {}
    IN IF by_meta # {} THEN by_meta
       ELSE IF price_id # "" THEN {p \in products : p.stripe_price_id = price_id}
       ELSE {}

\* stripe_checkout, lines 242-285
StripeBegin(r, d, t) ==
    LET ev == r.ev
        session == ev.body.object
        email == IF session.customer_email # <<>> THEN session.customer_email
                 ELSE session.details_email
        found == StripeProducts(d.products, session)
    IN IF cfg.stripe # "" /\ ~VerifyStripeSignature(ev.body, ev.sig_header, cfg.stripe)
       THEN {Out(Done(r, ErrResp(401)), d, t)}
       ELSE IF ev.body.type # "checkout.session.completed"
       THEN {Out(Done(r, Resp(200, "ignored", <<>>, "none")), d, t)}
       ELSE IF email = <<>> THEN {Out(Done(r, ErrResp(400)), d, t)}
       ELSE IF found = {} THEN {Out(Done(r, ErrResp(404)), d, t)}
       ELSE UNION {Resolve(r, d, t, p, email, SplitName(session.name)) : p \in found}

(***************************************************************************)
(* stripe_checkout: Sale ingestion and scholarship auto-match              *)
(***************************************************************************)
StripeSaleKey(session_id) == <<"stripe_", session_id>>

FindSaleNever(r, d, t) == {Out([r EXCEPT !.pc = "add_sale"], d, t)}

\* lines 288-291
FindSale(r, d, t) ==
    LET key == StripeSaleKey(r.ev.body.object.id)
        found == {x \in View(r, d).sales : x.sale_id = key}
    IN IF found = {}
       THEN {Out([r EXCEPT !.pc = "add_sale"], d, t)}
       ELSE {Out([r EXCEPT !.pc = "find_app", !.sale_id = x.id], d, t) : x \in found}

AddSaleCommitting(r, d, t, free) ==
    IF ~(free \/ r.intx) THEN {}
    ELSE LET view == View(r, d)
             session == r.ev.body.object
             sale == [id |-> NextId(view.sales), sale_id |-> <<"stripe_", session.id>>,
                      buyer_email |-> CleanEmail(r.email), product_id |-> r.product,
                      amount_cents |-> session.amount_total, status |-> "completed",
                      scholarship |-> 0, source |-> "stripe"]
         IN {Out([r EXCEPT !.pc = "find_app", !.intx = FALSE, !.sale_id = sale.id,
                           !.view = EmptyDb],
                 [view EXCEPT !.sales = @ \cup {sale}], t)}

\* lines 292-311: db.add(sale); db.flush()
AddSale(r, d, t, free) ==
    IF ~(free \/ r.intx) THEN {}
    ELSE LET view == View(r, d)
             session == r.ev.body.object
             sale == [id |-> NextId(view.sales), sale_id |-> StripeSaleKey(session.id),
                      buyer_email |-> CleanEmail(r.email), product_id |-> r.product,
                      amount_cents |-> session.amount_total, status |-> "completed",
                      scholarship |-> 0, source |-> "stripe"]
         IN IF UniqueOk(view.sales, "sale_id", sale.sale_id)
            THEN {Out([r EXCEPT !.pc = "find_app", !.intx = TRUE, !.sale_id = sale.id,
                                !.view = [view EXCEPT !.sales = @ \cup {sale}]], d, t)}
            ELSE {Out(Done(r, ErrResp(500)), d, t)}

MatchesAnyStatus(a, clean, product) ==
    StrLower(a.email) = clean /\ a.product_id = product

\* lines 315-323: the filter of the auto-match query
MatchesAccepted(a, clean, product) ==
    StrLower(a.email) = clean /\ a.product_id = product /\ a.status = "accepted"

FindApp(r, d, t) ==
    LET clean == CleanEmail(r.email)
        found == {a \in View(r, d).apps : MatchesAccepted(a, clean, r.product)}
    IN IF found = {}
       THEN {Out([r EXCEPT !.pc = "find_enr"], d, t)}
       ELSE {Out([r EXCEPT !.pc = "match_commit", !.app = a.id], d, t) : a \in found}

\* lines 324-327: sale.scholarship = 1; scholarship_app.enrolled = True;
\* db.commit()
MatchCommit(r, d, t, free) ==
    IF ~(free \/ r.intx) THEN {}
    ELSE LET view == View(r, d)
             sales == {IF x.id = r.sale_id THEN [x EXCEPT !.scholarship = 1] ELSE x
                       : x \in view.sales}
             apps == {IF a.id = r.app THEN [a EXCEPT !.enrolled = TRUE] ELSE a
                      : a \in view.apps}
         IN {Out([r EXCEPT !.pc = "find_enr", !.intx = FALSE, !.view = EmptyDb],
                 [view EXCEPT !.sales = sales, !.apps = apps], t)}

(***************************************************************************)
(* typeform_submission: answer mapping and Student enrichment              *)
(***************************************************************************)
\* _STUDENT_FIELDS
StudentFields == StudentAttrs \cup {"first_name", "last_name", "email"}

Put(result, field, value) ==
    [f \in DOMAIN result \cup {field} |-> IF f = field THEN value ELSE result[f]]

\* _parse_typeform_answers, lines 462-495.  An answer is [ref, type, value,
\* null]: value is what _extract_typeform_answer returns for its type, null
\* says it returned None.  A text value is the sequence of its words.
RECURSIVE ParseConventionFirst(_, _, _)
ParseConventionFirst(answers, field_map, result) ==
    IF answers = <<>> THEN result
    ELSE LET a == Head(answers)
             names == SplitName(a.value)
             next ==
               IF a.null THEN result
               ELSE IF a.ref \in StudentFields THEN Put(result, a.ref, a.value)
               ELSE IF a.ref \in DOMAIN field_map
               THEN IF field_map[a.ref] \in {"name", "full_name"}
                    THEN Put(Put(result, "first_name", names.first), "last_name", names.last)
                    ELSE Put(result, field_map[a.ref], a.value)
               ELSE IF a.type = "email" /\ "email" \notin DOMAIN result
               THEN Put(result, "email", a.value)
               ELSE IF a.ref \in {"name", "full_name"}
               THEN Put(Put(result, "first_name", names.first), "last_name", names.last)
               ELSE result
         IN ParseConventionFirst(Tail(answers), field_map, next)

RECURSIVE ParseEmailByNameOnly(_, _, _)
ParseEmailByNameOnly(answers, field_map, result) ==
    IF answers = <<>> THEN result
    ELSE LET a == Head(answers)
             names == SplitName(a.value)
             next ==
               IF a.null THEN result
               ELSE IF a.ref \in DOMAIN field_map
               THEN IF field_map[a.ref] \in {"name", "full_name"}
                    THEN Put(Put(result, "first_name", names.first), "last_name", names.last)
                    ELSE Put(result, field_map[a.ref], a.value)
               ELSE IF a.ref \in StudentFields THEN Put(result, a.ref, a.value)
               ELSE IF a.ref \in {"name", "full_name"}
               THEN Put(Put(result, "first_name", names.first), "last_name", names.last)
               ELSE result
         IN ParseEmailByNameOnly(Tail(answers), field_map, next)

RECURSIVE ParseTypeformAnswers(_, _, _)
ParseTypeformAnswers(answers, field_map, result) ==
    IF answers = <<>> THEN result
    ELSE LET a == Head(answers)
             names == SplitName(a.value)
             next == 
               IF a.null THEN result
               ELSE IF a.ref \in DOMAIN field_map
               THEN IF field_map[a.ref] \in {"name", "full_name"}
                    THEN Put(Put(result, "first_name", names.first), "last_name", names.last)
                    ELSE Put(result, field_map[a.ref], a.value)
               ELSE IF a.ref \in StudentFields THEN Put(result, a.ref, a.value)
               ELSE IF a.type = "email" /\ "email" \notin DOMAIN result
               THEN Put(result, "email", a.value)
               ELSE IF a.ref \in {"name", "full_name"}
               THEN Put(Put(result, "first_name", names.first), "last_name", names.last)
               ELSE result
         IN ParseTypeformAnswers(Tail(answers), field_map, next)

Pop(result, field, default) == IF field \in DOMAIN result THEN result[field] ELSE default

Without(result, fields) == [f \in DOMAIN result \ fields |-> result[f]]

AnyEventType(event_type) == TRUE

\* lines 531-532 and 685-686: only form_response events are processed
FormResponse(event_type) == event_type = "form_response"

\* typeform_submission, lines 520-571
TypeformBegin(r, d, t) ==
    LET ev == r.ev
        found == {p \in d.products : p.product_id = ev.product_id}
    IN IF cfg.typeform # "" /\ ~VerifyTypeformSignature(ev.body, ev.sig_header, cfg.typeform)
       THEN {Out(Done(r, ErrResp(401)), d, t)}
       ELSE IF ~FormResponse(ev.body.event_type)
       THEN {Out(Done(r, Resp(200, "ignored", <<>>, "none")), d, t)}
       ELSE IF found = {} THEN {Out(Done(r, ErrResp(404)), d, t)}
       ELSE UNION {
         LET parsed == ParseTypeformAnswers(ev.body.answers, p.typeform_field_map, NoFields)
             email == Pop(parsed, "email", <<>>)
             names == [first |-> Pop(parsed, "first_name", <<"Unknown">>),
                       last |-> Pop(parsed, "last_name", <<>>)]
             rest == Without(parsed, {"email", "first_name", "last_name"})
         IN IF p.typeform_form_id # "" /\ ev.body.form_id # p.typeform_form_id
            THEN {Out(Done(r, ErrResp(400)), d, t)}
            ELSE IF email = <<>> THEN {Out(Done(r, ErrResp(400)), d, t)}
            ELSE Resolve([r EXCEPT !.parsed = rest], d, t, p, email, names)
         : p \in found}

\* date.fromisoformat / float() / datetime.fromisoformat succeed on these.
IsoDates == {<<"2001-02-03">>}

Numerics == {<<"7">>}

IsoDateTimes == {"2026-01-05T10:00:00Z"}

CoercesAll(field, value) == TRUE

\* lines 575-592: which parsed fields are set on the Student
Coerces(field, value) ==
    /\ field = "dob" => value \in IsoDates
    /\ field = "claude_confidence_level" => value \in Numerics

EnrichErasing(r, d, t, free) ==
    LET product == ProductRow(View(r, d), r.product)
        nextpc == IF product.kit_onboarded_tag # "" THEN "tag_onboard" ELSE "find_enr"
        view == View(r, d)
        upd(s) == [s EXCEPT
            !.attrs = [f \in StudentAttrs |->
                         IF f \in DOMAIN r.parsed THEN Val(r.parsed[f]) ELSE NullV]]
        rows == {IF s.id = r.student.id THEN upd(s) ELSE s : s \in view.students}
    IN IF ~(free \/ r.intx) THEN {}
       ELSE {Out([r EXCEPT !.pc = nextpc, !.updated = DOMAIN r.parsed, !.intx = FALSE,
                           !.view = EmptyDb],
                 [view EXCEPT !.students = rows], t)}

EnrichAnyColumn(r, d, t, free) ==
    LET product == ProductRow(View(r, d), r.product)
        applied == {f \in DOMAIN r.parsed : Coerces(f, r.parsed[f])}
        nextpc == IF product.kit_onboarded_tag # "" THEN "tag_onboard" ELSE "find_enr"
    IN IF applied = {} THEN {Out([r EXCEPT !.pc = nextpc], d, t)}
       ELSE IF ~(free \/ r.intx) THEN {}
       ELSE LET view == View(r, d)
                upd(s) == [s EXCEPT
                    !.attrs = [f \in StudentAttrs |->
                                 IF f \in applied THEN Val(r.parsed[f]) ELSE s.attrs[f]],
                    !.student_number =
                        IF "student_number" \in applied THEN 0 ELSE s.student_number]
                rows == {IF s.id = r.student.id THEN upd(s) ELSE s : s \in view.students}
            IN {Out([r EXCEPT !.pc = nextpc, !.updated = applied, !.intx = FALSE,
                              !.view = EmptyDb],
                    [view EXCEPT !.students = rows], t)}

\* lines 573-607: setattr for each field that coerces, onboarding_date from
\* submitted_at, and db.commit() when anything was set.
Enrich(r, d, t, free) ==
    LET product == ProductRow(View(r, d), r.product)
        applied == {f \in DOMAIN r.parsed \cap StudentAttrs : Coerces(f, r.parsed[f])}
        stamped == r.ev.body.submitted_at \in IsoDateTimes
        updated == applied \cup (IF stamped THEN {"onboarding_date"} ELSE {})
        nextpc == IF product.kit_onboarded_tag # "" THEN "tag_onboard" ELSE "find_enr"
    IN IF updated = {} THEN {Out([r EXCEPT !.pc = nextpc], d, t)}
       ELSE IF ~(free \/ r.intx) THEN {}
       ELSE LET view == View(r, d)
                upd(s) == [s EXCEPT
                    !.attrs = [f \in StudentAttrs |->
                                 IF f \in applied THEN Val(r.parsed[f]) ELSE s.attrs[f]],
                    !.onboarding_date =
                        IF stamped THEN Val(r.ev.body.submitted_at) ELSE s.onboarding_date]
                rows == {IF s.id = r.student.id THEN upd(s) ELSE s : s \in view.students}
            IN {Out([r EXCEPT !.pc = nextpc, !.updated = updated, !.intx = FALSE,
                              !.view = EmptyDb],
                    [view EXCEPT !.students = rows], t)}

\* lines 609-612: the onboarded tag, called with the email as submitted
TagOnboard(r, d, t) ==
    {Out(IF res = "raise" THEN Done(r, ErrResp(500))
         ELSE [r EXCEPT !.pc = "find_enr", !.kit_tagged = res], d,
         TagCall(t, r.email, ProductRow(View(r, d), r.product).kit_onboarded_tag))
     : res \in TagResults}

(***************************************************************************)
(* typeform_completion_survey                                              *)
(***************************************************************************)
\* _parse_completion_answers, lines 640-661
RECURSIVE ParseCompletionAnswers(_, _, _)
ParseCompletionAnswers(answers, field_map, result) ==
    IF answers = <<>> THEN result
    ELSE LET a == Head(answers)
             next ==
               IF a.null THEN result
               ELSE IF a.ref \in DOMAIN field_map THEN Put(result, field_map[a.ref], a.value)
               ELSE IF a.ref \in EnrollmentSurveyFields THEN Put(result, a.ref, a.value)
               ELSE IF a.type = "email" /\ "email" \notin DOMAIN result
               THEN Put(result, "email", a.value)
               ELSE result
         IN ParseCompletionAnswers(Tail(answers), field_map, next)

\* lines 674-719: signature, event type, offering, form id, answers, email
CompletionBegin(r, d, t) ==
    LET ev == r.ev
        found == {p \in d.products : p.product_id = ev.product_id}
    IN IF cfg.typeform # "" /\ ~VerifyTypeformSignature(ev.body, ev.sig_header, cfg.typeform)
       THEN {Out(Done(r, ErrResp(401)), d, t)}
       ELSE IF ~FormResponse(ev.body.event_type)
       THEN {Out(Done(r, Resp(200, "ignored", <<>>, "none")), d, t)}
       ELSE IF found = {} THEN {Out(Done(r, ErrResp(404)), d, t)}
       ELSE UNION {
         LET parsed == ParseCompletionAnswers(ev.body.answers,
                                              p.completion_survey_field_map, NoFields)
             email == Pop(parsed, "email", <<>>)
         IN IF p.completion_survey_form_id # ""
               /\ ev.body.form_id # p.completion_survey_form_id
            THEN {Out(Done(r, ErrResp(400)), d, t)}
            ELSE IF email = <<>> THEN {Out(Done(r, ErrResp(400)), d, t)}
            ELSE {Out([r EXCEPT !.pc = "find_survey_student", !.product = p.id,
                                !.email = email,
                                !.parsed = Without(parsed, {"email"})], d, t)}
         : p \in found}

FindSurveyStudentOrCreate(r, d, t) == FindStudent(r, d, t)

\* lines 723-725: the Student by lower(email), or 404
FindSurveyStudent(r, d, t) ==
    LET clean == CleanEmail(r.email)
        found == {s \in View(r, d).students : StrLower(s.email) = clean}
    IN IF found = {}
       THEN {Out(Done(r, ErrResp(404)), d, t)}
       ELSE {Out([r EXCEPT !.pc = "find_survey_enr",
                           !.student = [id |-> s.id, email |-> s.email]], d, t)
             : s \in found}

\* lines 728-734: the Enrollment by student_id and product_id, or 404
FindSurveyEnrollment(r, d, t) ==
    LET found == {e \in View(r, d).enrollments :
                    e.student_id = r.student.id /\ e.product_id = r.product}
    IN IF found = {}
       THEN {Out(Done(r, ErrResp(404)), d, t)}
       ELSE {Out([r EXCEPT !.pc = "save_survey", !.existing = e.id], d, t) : e \in found}

\* lines 740-744: int(value) for the score columns
IntFields ==
    {"confidence_after", "recommend_score", "transformational_score",
     "delivered_on_promise_score"}

CoercesInt(field, value) == field \in IntFields => value \in Numerics

\* lines 736-767: setattr for each survey field that coerces, the survey
\* metadata, db.commit() and the response
SaveSurvey(r, d, t, free) ==
    IF ~(free \/ r.intx) THEN {}
    ELSE LET view == View(r, d)
             applied == {f \in DOMAIN r.parsed \cap EnrollmentSurveyFields :
                           CoercesInt(f, r.parsed[f])}
             stamped == r.ev.body.submitted_at \in IsoDateTimes
             upd(e) == [e EXCEPT
                 !.survey = [f \in EnrollmentSurveyFields |->
                               IF f \in applied THEN Val(r.parsed[f]) ELSE e.survey[f]],
                 !.survey_response_type = Val("completion"),
                 !.survey_submit_date =
                     IF stamped THEN Val(r.ev.body.submitted_at) ELSE e.survey_submit_date]
             rows == {IF e.id = r.existing THEN upd(e) ELSE e : e \in view.enrollments}
             key == (CHOOSE e \in view.enrollments : e.id = r.existing).enrollment_id
         IN {Out(Done(r, [Resp(200, "survey_saved", key, "none")
                            EXCEPT !.updated_fields = applied]),
                 [view EXCEPT !.enrollments = rows], t)}

(***************************************************************************)
(* Scholarship applications (webhooks.py section 6, scholarships.py)       *)
(***************************************************************************)
\* The decision columns of an application nobody has decided.
NoDecision ==
    [status |-> "pending", decision_tier |-> 0, discount_code |-> "", decision_notes |-> ""]

\* ScholarshipApplication(...) at webhooks.py 862-876 and scholarships.py
\* 77-91: both constructors pass status="pending" and leave the decision and
\* delivery columns at their defaults.
NewApplication(d, email, product) ==
    [id |-> NextId(d.apps), email |-> email, product_id |-> product,
     status |-> "pending", enrolled |-> FALSE,
     decision_tier |-> 0, discount_code |-> "", decision_notes |-> "", decided_at |-> 0,
     kit_delivered |-> FALSE, kit_delivered_at |-> 0, processing_status |-> ""]

\* typeform_scholarship, lines 846 and 862-876, for an application whose
\* course answer resolves to the given offering: a pending application is
\* inserted and committed.  The email is lowercased and stripped (line 846).
ScholarshipApply(d, email, product) ==
    [d EXCEPT !.apps = @ \cup {NewApplication(d, CleanEmail(email), product)}]

DecideStatusOnly(a, decision, now) == [a EXCEPT !.status = decision.status]

\* decide_scholarship, lines 109-113: the five assignments
Decided(a, decision, now) ==
    [a EXCEPT !.status = decision.status,
              !.decision_tier = decision.decision_tier,
              !.discount_code = decision.discount_code,
              !.decision_notes = decision.decision_notes,
              !.decided_at = now]

\* decide_scholarship, lines 105-114; an unknown id is answered 404 and
\* nothing is written.
Decide(d, app_id, decision, now) ==
    [d EXCEPT !.apps = {IF a.id = app_id THEN Decided(a, decision, now) ELSE a
                        : a \in d.apps}]

DeliveredResetsStatus(a, now) ==
    [a EXCEPT !.kit_delivered = TRUE, !.kit_delivered_at = now,
              !.processing_status = "processed", !.status = "pending"]

\* mark_kit_delivered, lines 149-151
Delivered(a, now) ==
    [a EXCEPT !.kit_delivered = TRUE, !.kit_delivered_at = now,
              !.processing_status = "processed"]

\* mark_kit_delivered, lines 145-152
MarkKitDelivered(d, app_id, now) ==
    [d EXCEPT !.apps = {IF a.id = app_id THEN Delivered(a, now) ELSE a : a \in d.apps}]

\* bulk_import_scholarships, lines 57-93: the rows in order; a row is
\* [email, product_id].  The session does not autoflush (database.py line
\* 11), so the duplicate query of line 62 sees the committed rows only;
\* pending holds the applications added so far, committed at line 93.
RECURSIVE BulkImportScholarships(_, _, _)
BulkImportScholarships(d, rows, pending) ==
    IF rows = <<>> THEN [d EXCEPT !.apps = @ \cup pending]
    ELSE LET row == Head(rows)
             email == StrStrip(StrLower(row.email))
             existing == {a \in d.apps : a.email = email /\ a.product_id = row.product_id}
             app == NewApplication([d EXCEPT !.apps = @ \cup pending], email, row.product_id)
         IN IF email = <<>> \/ existing # {}
            THEN BulkImportScholarships(d, Tail(rows), pending)
            ELSE BulkImportScholarships(d, Tail(rows), pending \cup {app})

\* _SCHOLARSHIP_FIELD_MAP, lines 775-783, by field id
ScholarshipFieldMap ==
    [f \in {"BDW3qHqGK2jN", "tL7F7QZoBHNt", "AKZmKw95FZnv", "qkEtJzfrekMw",
            "tSu0EbTN0f3n", "cr4NgV8ICSTY", "G18vXstzfsDw"} |->
       CASE f = "BDW3qHqGK2jN" -> "contact_info"
         [] f = "tL7F7QZoBHNt" -> "is_subscriber"
         [] f = "AKZmKw95FZnv" -> "course_name"
         [] f = "qkEtJzfrekMw" -> "amount_willing_to_pay"
         [] f = "tSu0EbTN0f3n" -> "circumstances"
         [] f = "cr4NgV8ICSTY" -> "hopes"
         [] OTHER -> "best_case_impact"]

\* typeform_scholarship, lines 824-844: answers are taken by field id; the
\* contact answer gives the names and the email.
RECURSIVE ParseScholarshipAnswers(_, _)
ParseScholarshipAnswers(answers, result) ==
    IF answers = <<>> THEN result
    ELSE LET a == Head(answers)
             mapped == IF a.id \in DOMAIN ScholarshipFieldMap
                       THEN ScholarshipFieldMap[a.id] ELSE ""
             next ==
               IF mapped = "" THEN result
               ELSE IF mapped = "contact_info"
               THEN Put(Put(Put(result, "first_name", a.contact_info.first_name),
                            "last_name", a.contact_info.last_name),
                        "email", a.contact_info.email)
               ELSE IF mapped = "is_subscriber" THEN result
               ELSE Put(result, mapped, a.value)
         IN ParseScholarshipAnswers(Tail(answers), next)

IsSubstr(a, b) ==
    \E i \in 0..(Len(b) - Len(a)) : SubSeq(b, i + 1, i + Len(a)) = a

\* _fuzzy_match_product, lines 786-799: the ids the two unordered queries
\* can return first; {NoProduct} when the course matches no offering.
FuzzyMatchProduct(course_name, products) ==
    LET clean == StrLower(StrStrip(course_name))
        exact == {p \in products : StrLower(p.product_name) = clean}
        partial == {p \in products : \/ IsSubstr(clean, StrLower(p.product_name))
                                     \/ IsSubstr(StrLower(p.product_name), clean)}
    IN IF course_name = <<>> THEN {NoProduct}
       ELSE IF exact # {} THEN {p.id : p \in exact}
       ELSE IF partial # {} THEN {p.id : p \in partial}
       ELSE {NoProduct}

\* typeform_scholarship, lines 808-887
ScholarshipBegin(r, d, t) ==
    LET ev == r.ev
        parsed == ParseScholarshipAnswers(ev.body.answers, NoFields)
        email == CleanEmail(Pop(parsed, "email", <<>>))
    IN IF cfg.typeform # "" /\ ~VerifyTypeformSignature(ev.body, ev.sig_header, cfg.typeform)
       THEN {Out(Done(r, ErrResp(401)), d, t)}
       ELSE IF ev.body.event_type # "form_response"
       THEN {Out(Done(r, Resp(200, "ignored", <<>>, "none")), d, t)}
       ELSE IF email = <<>> THEN {Out(Done(r, ErrResp(400)), d, t)}
       ELSE {Out(Done(r, Resp(200, "application_received", <<>>, "none")),
                 ScholarshipApply(d, email, product), t)
             : product \in FuzzyMatchProduct(Pop(parsed, "course_name", <<>>), d.products)}

(***************************************************************************)
(* One step of a request, and a handler run to completion                  *)
(***************************************************************************)
Step(r, d, t, free) ==
    CASE r.pc = "begin" ->
           (CASE r.ev.src = "kit" -> KitBegin(r, d, t)
              [] r.ev.src = "form" -> FormBegin(r, d, t)
              [] r.ev.src = "stripe" -> StripeBegin(r, d, t)
              [] r.ev.src = "typeform" -> TypeformBegin(r, d, t)
              [] r.ev.src = "completion" -> CompletionBegin(r, d, t)
              [] r.ev.src = "scholarship" -> ScholarshipBegin(r, d, t))
      [] r.pc = "max_num" -> ReadMaxNum(r, d, t)
      [] r.pc = "add_student" -> AddStudent(r, d, t, free)
      [] r.pc = "find_sale" -> FindSale(r, d, t)
      [] r.pc = "add_sale" -> AddSale(r, d, t, free)
      [] r.pc = "find_app" -> FindApp(r, d, t)
      [] r.pc = "match_commit" -> MatchCommit(r, d, t, free)
      [] r.pc = "enrich" -> Enrich(r, d, t, free)
      [] r.pc = "tag_onboard" -> TagOnboard(r, d, t)
      [] r.pc = "find_enr" -> FindEnrollment(r, d, t)
      [] r.pc = "link_sale" -> LinkSale(r, d, t, free)
      [] r.pc = "add_enr" -> AddEnrollment(r, d, t, free)
      [] r.pc = "tag_rsvp" -> TagRsvp(r, d, t)
      [] r.pc = "find_survey_student" -> FindSurveyStudent(r, d, t)
      [] r.pc = "find_survey_enr" -> FindSurveyEnrollment(r, d, t)
      [] r.pc = "save_survey" -> SaveSurvey(r, d, t, free)
      [] OTHER -> {}

RECURSIVE Run(_, _, _)
Run(r, d, t) ==
    IF r.pc = "done" THEN {Out(r, d, t)}
    ELSE UNION {Run(o.r, o.db, o.tags) : o \in Step(r, d, t, TRUE)}

Start(ev) == [IdleReq EXCEPT !.pc = "begin", !.ev = ev]

(***************************************************************************)
(* Events the providers send                                               *)
(***************************************************************************)
EmailA == <<"a">>
EmailAVariant == <<" ", "A">>
EmailB == <<"b">>

KitEvent(tag, secret, email, first) ==
    [src |-> "kit", kit_tag |-> tag, secret |-> secret, email |-> email, first_name |-> first]

KitEvents ==
    { KitEvent("tag_p", "ks", EmailA, <<"Ann">>),
      KitEvent("tag_p", "ks", EmailAVariant, <<>>) }

RejectedKitEvents ==
    { KitEvent("tag_p", "wrong", EmailA, <<"Ann">>),
      KitEvent("tag_p", "", EmailB, <<>>),
      KitEvent("tag_zz", "ks", EmailA, <<"Ann">>) }

FormEvent(slug, secret, email, first, lastn, name) ==
    [src |-> "form", product_id |-> slug, secret |-> secret, email |-> email,
     first_name |-> first, last_name |-> lastn, name |-> name]

FormEvents ==
    { FormEvent(<<"p">>, "ks", EmailB, <<>>, <<>>, <<"Bo", "Ek">>),
      FormEvent(<<"q">>, "ks", EmailA, <<"Ann">>, <<>>, <<>>) }

RejectedFormEvents ==
    { FormEvent(<<"q">>, "wrong", EmailB, <<>>, <<>>, <<>>),
      FormEvent(<<"zz">>, "ks", EmailA, <<>>, <<>>, <<>>) }

Session(id, customer_email, details_email, name, product, meta_price, line_price) ==
    [id |-> id, customer_email |-> customer_email, details_email |-> details_email,
     name |-> name, meta_product_id |-> product, meta_price_id |-> meta_price,
     line_price_id |-> line_price, amount_total |-> 49900]

StripeBody(type, session) == [type |-> type, object |-> session]

\* The header the payment processor computes for a body with its copy of the
\* secret.
StripeSign(secret, timestamp, body) ==
    << <<"t", timestamp>>, <<"v1", Hmac(secret, <<timestamp, body>>)>> >>

StripeEvent(body, header) == [src |-> "stripe", body |-> body, sig_header |-> header]

Checkout1 ==
    StripeBody("checkout.session.completed",
               Session("cs_1", EmailA, <<>>, <<"Ann">>, <<"p">>, "", ""))

Checkout2 ==
    StripeBody("checkout.session.completed",
               Session("cs_2", <<>>, EmailAVariant, <<>>, <<>>, "", "price_p"))

\* Checkout1 altered in transit: another buyer
Checkout1Tampered ==
    StripeBody("checkout.session.completed",
               Session("cs_1", EmailB, <<>>, <<"Ann">>, <<"p">>, "", ""))

OtherStripeType ==
    StripeBody("payment_intent.succeeded",
               Session("cs_4", EmailB, <<>>, <<>>, <<"p">>, "", ""))

CheckoutNoEmail ==
    StripeBody("checkout.session.completed",
               Session("cs_5", <<>>, <<>>, <<>>, <<"p">>, "", ""))

CheckoutNoProduct ==
    StripeBody("checkout.session.completed",
               Session("cs_6", EmailB, <<>>, <<>>, <<"zz">>, "", "price_zz"))

Genuine(bodies) == {StripeEvent(b, StripeSign("ss", "t1", b)) : b \in bodies}

StripeEvents == Genuine({Checkout1, Checkout2})

\* Events whose header was not computed for their body with the secret: a
\* body altered in transit, another secret, a header whose t is not the one
\* signed, a header with an item that is no key=value pair, no header.
ForgedStripeEvents ==
    { StripeEvent(Checkout1Tampered, StripeSign("ss", "t1", Checkout1)),
      StripeEvent(Checkout1, StripeSign("wrong", "t1", Checkout1)),
      StripeEvent(Checkout1, StripeSign("ss", "t2", Checkout1) \o << <<"t", "t1">> >>),
      StripeEvent(Checkout1, StripeSign("ss", "t1", Checkout1) \o << <<"">> >>),
      StripeEvent(Checkout1, << <<"">> >>) }

InvalidStripeEvents == Genuine({OtherStripeType, CheckoutNoEmail, CheckoutNoProduct})

Answer(ref, type, value) == [ref |-> ref, type |-> type, value |-> value, null |-> FALSE]

TypeformBody(event_type, form_id, answers, submitted_at) ==
    [event_type |-> event_type, form_id |-> form_id, answers |-> answers,
     submitted_at |-> submitted_at]

\* The header the survey tool computes for a body with its copy of the secret.
TypeformSign(secret, body) == <<"sha256=", Hmac(secret, body)>>

TypeformEvent(slug, body, header) ==
    [src |-> "typeform", product_id |-> slug, body |-> body, sig_header |-> header]

Onboarding1 ==
    TypeformBody("form_response", "form_p",
                 << Answer("q_mail", "email", EmailA),
                    Answer("country", "text", <<"Norway">>) >>,
                 "2026-01-05T10:00:00Z")

Onboarding2 ==
    TypeformBody("form_response", "form_p", << Answer("q_mail", "email", EmailB) >>, "")

OnboardingPartial ==
    TypeformBody("form_response_partial", "form_p",
                 << Answer("q_mail", "email", EmailB) >>, "")

OnboardingOtherForm ==
    TypeformBody("form_response", "form_x", << Answer("q_mail", "email", EmailB) >>, "")

OnboardingNoEmail ==
    TypeformBody("form_response", "form_p",
                 << Answer("country", "text", <<"Norway">>) >>, "")

\* An answer for which _extract_typeform_answer returns None.
NullAnswer(ref, type) == [ref |-> ref, type |-> type, value |-> <<>>, null |-> TRUE]

\* Names under the "name" reference, a value under the reference "timezone"
\* that the field map of p sends to country, no value for gender, and a
\* value under "q_rank", which the field map sends to student_number.
OnboardingMapped ==
    TypeformBody("form_response", "form_p",
                 << Answer("q_mail", "email", EmailAVariant),
                    Answer("name", "text", <<"Zed", "Zu">>),
                    Answer("timezone", "text", <<"Peru">>),
                    NullAnswer("gender", "choice"),
                    Answer("q_rank", "number", <<"7">>) >>,
                 "")

\* A date of birth that date.fromisoformat refuses and a confidence level
\* that float() refuses.
OnboardingSparse ==
    TypeformBody("form_response", "form_p",
                 << Answer("q_mail", "email", EmailA),
                    Answer("gender", "choice", <<"x">>),
                    Answer("dob", "date", <<"soon">>),
                    Answer("claude_confidence_level", "text", <<"high">>) >>,
                 "")

\* Submissions to offering q, which has no field map and no form id: one
\* email answer under a reference of the form's own, a second one, a
\* canonical attribute and an answer no rule knows;
OnboardingPlain ==
    TypeformBody("form_response", "form_q",
                 << Answer("contact", "email", EmailA),
                    Answer("work_mail", "email", EmailB),
                    Answer("country", "text", <<"Chile">>),
                    Answer("shoe_size", "number", <<"9">>) >>,
                 "")

\* an email answer under the reference alternative_email before the email
\* answer, whose reference is full_name.
OnboardingAltFirst ==
    TypeformBody("form_response", "form_q",
                 << Answer("alternative_email", "email", EmailB),
                    Answer("full_name", "email", EmailAVariant),
                    Answer("gender", "choice", <<"y">>) >>,
                 "")

OnboardingEvents ==
    { TypeformEvent(<<"p">>, b, TypeformSign("ts", b))
      : b \in {Onboarding1, OnboardingMapped, OnboardingSparse} }

PlainOnboardingEvents ==
    { TypeformEvent(<<"q">>, b, TypeformSign("ts", b))
      : b \in {OnboardingPlain, OnboardingAltFirst} }

TypeformEvents == {TypeformEvent(<<"p">>, Onboarding1, TypeformSign("ts", Onboarding1))}

ForgedTypeformEvents ==
    { TypeformEvent(<<"p">>, Onboarding2, TypeformSign("ts", Onboarding1)),
      TypeformEvent(<<"p">>, Onboarding2, TypeformSign("wrong", Onboarding2)),
      TypeformEvent(<<"p">>, Onboarding2, <<>>) }

InvalidTypeformEvents ==
    { TypeformEvent(<<"p">>, b, TypeformSign("ts", b))
      : b \in {OnboardingPartial, OnboardingOtherForm, OnboardingNoEmail} }
    \cup {TypeformEvent(<<"zz">>, Onboarding2, TypeformSign("ts", Onboarding2))}

(***************************************************************************)
(* Operations that share the store with the webhooks                       *)
(***************************************************************************)
AdminEvent(name) == [src |-> name]

CsvSaleKey(email, slug, date_part) == <<"csv", email, slug, date_part>>

CsvLinkAlways(e, key) == e.enrollment_id = key

\* import_sales_csv, lines 195-201: the Enrollment a new sale is linked to
CsvLinkTarget(e, key) == e.enrollment_id = key /\ e.sale_id = 0

\* import_sales_csv, lines 154-207: the rows in order, in one session that
\* commits at the end (line 211).  A row is [email, date].
RECURSIVE ImportRows(_, _, _)
ImportRows(view, product, rows) ==
    IF rows = <<>> THEN view
    ELSE LET row == Head(rows)
             email == StrLower(StrStrip(row.email))
             key == CsvSaleKey(email, product.product_id, row.date)
             sale == [id |-> NextId(view.sales), sale_id |-> key,
                      buyer_email |-> email, product_id |-> product.id,
                      amount_cents |-> 0, status |-> "completed",
                      scholarship |-> 0, source |-> "csv"]
             target == {e \in view.enrollments
                        : CsvLinkTarget(e, EnrollmentKey(email, product.product_id))}
             linked == IF target = {} THEN view.enrollments
                       ELSE LET e == CHOOSE e \in target : TRUE
                            IN (view.enrollments \ {e}) \cup {[e EXCEPT !.sale_id = sale.id]}
         IN IF email = <<>> \/ \E x \in view.sales : x.sale_id = key
            THEN ImportRows(view, product, Tail(rows))
            ELSE ImportRows([view EXCEPT !.sales = @ \cup {sale}, !.enrollments = linked],
                            product, Tail(rows))

CsvBatches ==
    { << [email |-> EmailA, date |-> "20260105"] >>,
      << [email |-> EmailAVariant, date |-> "20260105"],
         [email |-> EmailA, date |-> "20260105"] >> }

(***************************************************************************)
(* Specification: one request at a time                                    *)
(***************************************************************************)
Init ==
    /\ db = SeededDb
    /\ reqs = [s \in Slots |-> IdleReq]
    /\ last = [ev |-> NoEvent, resp |-> NoResp]
    /\ tagCalls = NoTagCalls
    /\ cfg = [kit |-> "ks", stripe |-> "ss", typeform |-> "ts", kit_api |-> "text_errors"]

Quiet == \A s \in Slots : reqs[s].pc = "idle"

\* A webhook handler run from its first line to its response.
Handle(ev) ==
    /\ Quiet
    /\ \E o \in Run(Start(ev), db, tagCalls) :
         /\ db' = o.db
         /\ tagCalls' = o.tags
         /\ last' = [ev |-> ev, resp |-> o.r.resp]
    /\ UNCHANGED <<reqs, cfg>>

kit_tag_added == \E ev \in KitEvents : Handle(ev)

form_submission == \E ev \in FormEvents : Handle(ev)

stripe_checkout == \E ev \in StripeEvents : Handle(ev)

typeform_submission == \E ev \in TypeformEvents : Handle(ev)

Admin(name, d) ==
    /\ Quiet
    /\ db' = d
    /\ last' = [ev |-> AdminEvent(name), resp |-> NoResp]
    /\ UNCHANGED <<reqs, tagCalls, cfg>>

\* The two decisions an administrator submits.
Verdicts ==
    { [status |-> "accepted", decision_tier |-> 1, discount_code |-> "HALF",
       decision_notes |-> ""],
      [status |-> "rejected", decision_tier |-> 0, discount_code |-> "",
       decision_notes |-> "no"] }

typeform_scholarship ==
    /\ Cardinality(db.apps) < MaxApps
    /\ \E email \in {EmailA, EmailAVariant} :
         Admin("typeform_scholarship", ScholarshipApply(db, email, 1))

decide_scholarship ==
    \E a \in db.apps : \E decision \in Verdicts :
        Admin("decide_scholarship", Decide(db, a.id, decision, 1))

import_sales_csv ==
    \E rows \in CsvBatches :
        Admin("import_sales_csv", ImportRows(db, ProductRow(db, 1), rows))

Next ==
    \/ kit_tag_added
    \/ form_submission
    \/ stripe_checkout
    \/ typeform_submission
    \/ typeform_scholarship
    \/ decide_scholarship
    \/ import_sales_csv

Spec == Init /\ [][Next]_vars

(***************************************************************************)
(* Specification with the management edit of a Person (students.py)        *)
(***************************************************************************)
\* update_student, lines 76-81: setattr(student, "email", value); commit.
\* The value is stored as given; the UNIQUE column refuses a taken one.
UpdateStudentEmail(d, student_id, email) ==
    IF \E s \in d.students : s.id # student_id /\ s.email = email THEN d
    ELSE [d EXCEPT !.students = {IF s.id = student_id THEN [s EXCEPT !.email = email]
                                 ELSE s : s \in d.students}]

update_student ==
    \E s \in db.students : \E email \in {EmailA, EmailB} :
        /\ email # s.email
        /\ Admin("update_student", UpdateStudentEmail(db, s.id, email))

NextMgmt ==
    \/ kit_tag_added
    \/ form_submission
    \/ stripe_checkout
    \/ typeform_submission
    \/ update_student

SpecMgmt == Init /\ [][NextMgmt]_vars

(***************************************************************************)
(* Specification with the management endpoints that create a Person        *)
(* (students.py) and edit an offering (products.py)                        *)
(***************************************************************************)
\* create_student, lines 67-69: Student(**payload.model_dump()); db.add;
\* db.commit().  The email and the number are stored as given; a taken email
\* or number violates the UNIQUE columns and nothing is stored.
CreateStudent(d, num, email, first, lastn) ==
    IF /\ UniqueOk(d.students, "email", email)
       /\ UniqueOk(d.students, "student_number", num)
    THEN [d EXCEPT !.students = @ \cup {NewStudent(d, num, email, first, lastn)}]
    ELSE d

\* update_product, lines 61-66, for a payload that sets product_id:
\* setattr(product, "product_id", value); db.commit().  The column is
\* UNIQUE; nothing else is checked.
UpdateProductSlug(d, id, slug) ==
    IF \E p \in d.products : p.id # id /\ p.product_id = slug THEN d
    ELSE [d EXCEPT !.products = {IF p.id = id THEN [p EXCEPT !.product_id = slug] ELSE p
                                 : p \in d.products}]

create_student ==
    \E email \in {<<"A">>, EmailAVariant}, num \in {1, 2} :
        Admin("create_student", CreateStudent(db, num, email, <<"Al">>, <<>>))

update_product ==
    \E p \in db.products : \E slug \in {<<"p">>, <<"x">>} :
        /\ slug # p.product_id
        /\ Admin("update_product", UpdateProductSlug(db, p.id, slug))

NextAdmin ==
    \/ kit_tag_added
    \/ create_student
    \/ update_product

SpecAdmin == Init /\ [][NextAdmin]_vars

(***************************************************************************)
(* Specification with deletions through the management routers             *)
(***************************************************************************)
\* delete_student, lines 88-92: db.delete(student); db.commit().  The
\* Student.enrollments relationship has no delete cascade, so the flush sets
\* student_id of the Student's Enrollments to NULL, which the NOT NULL
\* column refuses: the commit raises and nothing is deleted.
DeleteStudent(d, student_id) ==
    IF \E e \in d.enrollments : e.student_id = student_id THEN d
    ELSE [d EXCEPT !.students = {s \in @ : s.id # student_id}]

\* delete_enrollment (enrollments.py lines 97-101)
DeleteEnrollment(d, id) == [d EXCEPT !.enrollments = {e \in @ : e.id # id}]

delete_student ==
    \E s \in db.students :
        /\ Quiet
        /\ db' = DeleteStudent(db, s.id)
        /\ last' = [ev |-> [src |-> "delete_student", student_id |-> s.id,
                            student_number |-> s.student_number],
                    resp |-> IF db' = db THEN ErrResp(500) ELSE Resp(204, "", <<>>, "none")]
        /\ UNCHANGED <<reqs, tagCalls, cfg>>

delete_enrollment ==
    \E e \in db.enrollments : Admin("delete_enrollment", DeleteEnrollment(db, e.id))

\* Row ids and sequence numbers grow without bound once rows are deleted:
\* creating events are delivered while they are below MaxNumber.
BelowMaxNumber ==
    /\ \A s \in db.students : s.student_number < MaxNumber
    /\ \A e \in db.enrollments : e.id < MaxNumber

kit_tag_added_first ==
    BelowMaxNumber /\ Handle(KitEvent("tag_p", "ks", EmailA, <<"Ann">>))

form_submission_second ==
    BelowMaxNumber /\ Handle(FormEvent(<<"p">>, "ks", EmailB, <<>>, <<>>, <<"Bo", "Ek">>))

NextDelete ==
    \/ kit_tag_added_first
    \/ form_submission_second
    \/ delete_student
    \/ delete_enrollment

SpecDelete == Init /\ [][NextDelete]_vars

(***************************************************************************)
(* Specification of the onboarding survey: several submissions for one     *)
(* Person, before and after the event that creates the Person.             *)
(***************************************************************************)
typeform_onboarding == \E ev \in OnboardingEvents : Handle(ev)

typeform_plain == \E ev \in PlainOnboardingEvents : Handle(ev)

NextOnboard ==
    \/ kit_tag_added
    \/ typeform_onboarding
    \/ typeform_plain

SpecOnboard == Init /\ [][NextOnboard]_vars

(***************************************************************************)
(* Specification with concurrent requests: each step of a request is one   *)
(* database interaction (or the outbound call), and the steps of up to     *)
(* MaxConc requests interleave.  A write waits while another session holds *)
(* the write lock.                                                          *)
(***************************************************************************)
LockFree(slot) == \A s \in Slots \ {slot} : ~reqs[s].intx

NoLock == \A s \in Slots : ~reqs[s].intx

Advance(slot, r) ==
    \E o \in Step(r, db, tagCalls, LockFree(slot)) :
        /\ db' = o.db
        /\ tagCalls' = o.tags
        /\ IF o.r.pc = "done"
           THEN /\ reqs' = [reqs EXCEPT ![slot] = IdleReq]
                /\ last' = [ev |-> o.r.ev, resp |-> o.r.resp]
           ELSE /\ reqs' = [reqs EXCEPT ![slot] = o.r]
                /\ UNCHANGED last
        /\ UNCHANGED cfg

ConcEvents ==
    KitEvents \cup Genuine({Checkout1})

\* A request arrives and runs up to its first query.
Begin(slot) ==
    /\ reqs[slot].pc = "idle"
    /\ \A s \in Slots : s < slot => reqs[s].pc # "idle"
    /\ \E ev \in ConcEvents : Advance(slot, Start(ev))

\* A request in flight performs its next database interaction.
Proceed(slot) ==
    /\ reqs[slot].pc # "idle"
    /\ Advance(slot, reqs[slot])

\* A committing operation of the scholarship router, between the steps of
\* the requests in flight.
AdminConc(name, d) ==
    /\ NoLock
    /\ db' = d
    /\ last' = [ev |-> AdminEvent(name), resp |-> NoResp]
    /\ UNCHANGED <<reqs, tagCalls, cfg>>

apply_conc ==
    /\ Cardinality(db.apps) < MaxApps
    /\ AdminConc("typeform_scholarship", ScholarshipApply(db, EmailA, 1))

decide_conc ==
    \E a \in db.apps : \E decision \in Verdicts :
        AdminConc("decide_scholarship", Decide(db, a.id, decision, 1))

NextConc ==
    \/ \E slot \in Slots : Begin(slot)
    \/ \E slot \in Slots : Proceed(slot)
    \/ apply_conc
    \/ decide_conc

SpecConc == Init /\ [][NextConc]_vars

(***************************************************************************)
(* Specification with concurrent requests for two emails: a creating event *)
(* for each, and an onboarding submission without attributes.              *)
(***************************************************************************)
StepEvents ==
    { KitEvent("tag_p", "ks", EmailA, <<"Ann">>),
      FormEvent(<<"p">>, "ks", EmailB, <<>>, <<>>, <<"Bo", "Ek">>),
      TypeformEvent(<<"p">>, Onboarding2, TypeformSign("ts", Onboarding2)) }

BeginStep(slot) ==
    /\ reqs[slot].pc = "idle"
    /\ \A s \in Slots : s < slot => reqs[s].pc # "idle"
    /\ \E ev \in StepEvents : Advance(slot, Start(ev))

NextSteps ==
    \/ \E slot \in Slots : BeginStep(slot)
    \/ \E slot \in Slots : Proceed(slot)

SpecSteps == Init /\ [][NextSteps]_vars

(***************************************************************************)
(* Specification of the two surveys: completion submissions for an         *)
(* enrolled Person, for an email without a Person and for an offering the  *)
(* Person has no Enrollment in, among onboarding submissions and the       *)
(* events that create Persons and Enrollments.                             *)
(***************************************************************************)
CompletionEvent(slug, body, header) ==
    [src |-> "completion", product_id |-> slug, body |-> body, sig_header |-> header]

Completion1 ==
    TypeformBody("form_response", "done_p",
                 << Answer("q_mail", "email", EmailAVariant),
                    Answer("q_win", "text", <<"won">>),
                    Answer("confidence_after", "number", <<"7">>) >>,
                 "2026-01-05T10:00:00Z")

Completion2 ==
    TypeformBody("form_response", "done_p",
                 << Answer("q_mail", "email", EmailA),
                    Answer("satisfaction", "choice", <<"good">>),
                    Answer("recommend_score", "text", <<"x">>),
                    NullAnswer("biggest_win", "text"),
                    Answer("q_status", "text", <<"free">>) >>,
                 "")

CompletionNoPerson ==
    TypeformBody("form_response", "done_p",
                 << Answer("q_mail", "email", EmailB),
                    Answer("biggest_win", "text", <<"w">>) >>,
                 "2026-01-05T10:00:00Z")

CompletionEvents ==
    {CompletionEvent(<<"p">>, b, TypeformSign("ts", b))
     : b \in {Completion1, Completion2, CompletionNoPerson}}
      \cup {CompletionEvent(<<"q">>, Completion1, TypeformSign("ts", Completion1))}

typeform_completion_survey == \E ev \in CompletionEvents : Handle(ev)

NextSurvey ==
    \/ kit_tag_added
    \/ form_submission
    \/ typeform_onboarding
    \/ typeform_completion_survey

SpecSurvey == Init /\ [][NextSurvey]_vars

(***************************************************************************)
(* Specification of deliveries that are not processed: unprocessed event   *)
(* types, payloads without email, offerings that do not resolve, among     *)
(* deliveries that are.  Every delivery carries the right credentials.     *)
(***************************************************************************)
\* Checkout sessions that name their offering in more than one way: by
\* product_id and by prices of another offering; by an unknown product_id, a
\* metadata price and a line item price; by a metadata price of no offering
\* and a line item price of offering p.
CheckoutBoth ==
    StripeBody("checkout.session.completed",
               Session("cs_7", EmailB, <<>>, <<>>, <<"p">>, "price_q", "price_q"))

CheckoutMetaPrice ==
    StripeBody("checkout.session.completed",
               Session("cs_8", EmailB, <<>>, <<>>, <<"zz">>, "price_q", "price_p"))

CheckoutStalePrice ==
    StripeBody("checkout.session.completed",
               Session("cs_9", EmailA, <<>>, <<>>, <<>>, "price_zz", "price_p"))

CompletionPartial ==
    TypeformBody("form_response_partial", "done_p",
                 << Answer("q_mail", "email", EmailA),
                    Answer("biggest_win", "text", <<"w">>) >>,
                 "")

kit_delivery ==
    \E ev \in {KitEvent("tag_p", "ks", EmailA, <<"Ann">>)}
                \cup {x \in RejectedKitEvents : x.secret = "ks"} : Handle(ev)

form_delivery ==
    \E ev \in {FormEvent(<<"q">>, "ks", EmailA, <<"Ann">>, <<>>, <<>>)}
                \cup {x \in RejectedFormEvents : x.secret = "ks"} : Handle(ev)

stripe_delivery ==
    \E ev \in StripeEvents \cup InvalidStripeEvents
                \cup Genuine({CheckoutBoth, CheckoutMetaPrice, CheckoutStalePrice}) : Handle(ev)

typeform_delivery ==
    \E ev \in TypeformEvents \cup InvalidTypeformEvents : Handle(ev)

completion_delivery ==
    \E b \in {Completion1, CompletionPartial} :
        Handle(CompletionEvent(<<"p">>, b, TypeformSign("ts", b)))

NextInvalid ==
    \/ kit_delivery
    \/ form_delivery
    \/ stripe_delivery
    \/ typeform_delivery
    \/ completion_delivery

SpecInvalid == Init /\ [][NextInvalid]_vars

(***************************************************************************)
(* Specification with the router in front of the webhook handlers          *)
(***************************************************************************)
Lit(segment) == [param |-> FALSE, name |-> segment]

Param(name) == [param |-> TRUE, name |-> name]

\* The @router.post decorators of webhooks.py in declaration order (lines
\* 209, 236, 360, 509, 664, 802), below the prefix /api/webhook (line 22).
Routes ==
    << [pattern |-> <<Lit(<<"kit">>), Param("kit_tag")>>, handler |-> "kit"],
       [pattern |-> <<Lit(<<"stripe">>)>>, handler |-> "stripe"],
       [pattern |-> <<Lit(<<"form">>), Param("product_id")>>, handler |-> "form"],
       [pattern |-> <<Lit(<<"typeform">>), Param("product_id")>>, handler |-> "typeform"],
       [pattern |-> <<Lit(<<"typeform">>), Param("product_id"), Lit(<<"completion">>)>>,
        handler |-> "completion"],
       [pattern |-> <<Lit(<<"typeform">>), Lit(<<"scholarship">>)>>,
        handler |-> "scholarship"] >>

\* A path parameter takes any one segment; a literal takes itself.
Matches(pattern, path) ==
    /\ Len(pattern) = Len(path)
    /\ \A i \in 1..Len(pattern) : pattern[i].param \/ pattern[i].name = path[i]

\* The router tries the routes in the order they were added and calls the
\* first one whose pattern matches; 0 when none does.
Dispatch(path) ==
    LET hits == {i \in DOMAIN Routes : Matches(Routes[i].pattern, path)}
    IN IF hits = {} THEN 0 ELSE CHOOSE i \in hits : \A j \in hits : i <= j

\* The call of the handler of route i: the path parameter is bound from the
\* path, the rest of the request is passed on.
Routed(req, i) ==
    LET h == Routes[i].handler
        ev == [req.payload EXCEPT !.src = h]
    IN [path |-> req.path] @@
       (CASE h = "kit" -> [ev EXCEPT !.kit_tag = req.path[2][1]]
          [] h \in {"form", "typeform", "completion"} -> [ev EXCEPT !.product_id = req.path[2]]
          [] OTHER -> ev)

ScholarshipPath == << <<"typeform">>, <<"scholarship">> >>

\* The URL a sender is configured with for its events.
UrlOf(ev) ==
    CASE ev.src = "kit" -> << <<"kit">>, <<ev.kit_tag>> >>
      [] ev.src = "typeform" -> << <<"typeform">>, ev.product_id >>
      [] ev.src = "completion" -> << <<"typeform">>, ev.product_id, <<"completion">> >>
      [] ev.src = "scholarship" -> ScholarshipPath

NoContact == [first_name |-> <<>>, last_name |-> <<>>, email |-> <<>>]

\* An answer of the shared application form: field id, type, extracted value
\* and the contact block.
FormAnswer(id, type, value, contact) ==
    [id |-> id, ref |-> "", type |-> type, value |-> value, null |-> FALSE,
     contact_info |-> contact]

ContactAnswer(email) ==
    FormAnswer("BDW3qHqGK2jN", "contact_info", <<>>,
               [first_name |-> <<"Bo">>, last_name |-> <<>>, email |-> email])

\* An application for the course "ai" and one that names no course.
Application1 ==
    TypeformBody("form_response", "BlmrafcZ",
                 << ContactAnswer(EmailB),
                    FormAnswer("AKZmKw95FZnv", "choice", <<"a", "i">>, NoContact) >>,
                 "")

Application2 ==
    TypeformBody("form_response", "BlmrafcZ", << ContactAnswer(EmailAVariant) >>, "")

ScholarshipEvent(body, header) ==
    [src |-> "scholarship", product_id |-> <<>>, body |-> body, sig_header |-> header]

ScholarshipEvents ==
    {ScholarshipEvent(b, TypeformSign("ts", b)) : b \in {Application1, Application2}}

WebhookRequests ==
    { [path |-> UrlOf(ev), payload |-> ev]
      : ev \in KitEvents \cup OnboardingEvents \cup CompletionEvents \cup ScholarshipEvents }

\* POST /api/webhook/...: the router picks the handler, the handler runs.
post_webhook ==
    \E req \in WebhookRequests :
        /\ Dispatch(req.path) # 0
        /\ Handle(Routed(req, Dispatch(req.path)))

NextRoute == post_webhook

SpecRoute == Init /\ [][NextRoute]_vars

(***************************************************************************)
(* Specification of the scholarship applications: the application handler  *)
(* and the management endpoints of scholarships.py, with the checkout that *)
(* matches accepted applications.                                          *)
(***************************************************************************)
\* Values datetime.utcnow() returns.
Times == {1, 2}

\* Bodies of POST /api/scholarship-applications/bulk-import: one row, and a
\* row without email before a row for offering q.
ScholarshipBatches ==
    { << [email |-> EmailAVariant, product_id |-> 1] >>,
      << [email |-> <<" ">>, product_id |-> 1], [email |-> EmailB, product_id |-> 2] >> }

\* An endpoint of scholarships.py answered {"status": "ok"}.
Manage(ev, d) ==
    /\ Quiet
    /\ db' = d
    /\ last' = [ev |-> ev, resp |-> Resp(200, "ok", <<>>, "none")]
    /\ UNCHANGED <<reqs, tagCalls, cfg>>

scholarship_application ==
    /\ Cardinality(db.apps) < MaxApps
    /\ \E ev \in ScholarshipEvents : Handle(ev)

bulk_import_scholarships ==
    /\ Cardinality(db.apps) < MaxApps
    /\ \E rows \in ScholarshipBatches :
         Manage([src |-> "bulk_import_scholarships", rows |-> rows],
                BulkImportScholarships(db, rows, {}))

decide_application ==
    \E a \in db.apps : \E decision \in Verdicts : \E now \in Times :
        Manage([src |-> "decide_scholarship", app_id |-> a.id,
                decision |-> decision, now |-> now],
               Decide(db, a.id, decision, now))

mark_kit_delivered ==
    \E a \in db.apps : \E now \in Times :
        Manage([src |-> "mark_kit_delivered", app_id |-> a.id, now |-> now],
               MarkKitDelivered(db, a.id, now))

NextScholar ==
    \/ scholarship_application
    \/ bulk_import_scholarships
    \/ decide_application
    \/ mark_kit_delivered
    \/ stripe_checkout

SpecScholar == Init /\ [][NextScholar]_vars

(***************************************************************************)
(* Specification of the bulk import of applications, with batches that     *)
(* name a pair of email and offering more than once.                       *)
(***************************************************************************)
\* Bodies of POST /api/scholarship-applications/bulk-import: the batches of
\* SpecScholar, a batch whose two rows normalize to the same email for the
\* same offering, and a batch with one email for two offerings.
ImportBatches ==
    ScholarshipBatches \cup
    { << [email |-> EmailA, product_id |-> 1], [email |-> EmailAVariant, product_id |-> 1] >>,
      << [email |-> EmailB, product_id |-> 1], [email |-> EmailB, product_id |-> 2] >> }

bulk_import ==
    \E rows \in ImportBatches :
        /\ Cardinality(BulkImportScholarships(db, rows, {}).apps) <= MaxImported
        /\ Manage([src |-> "bulk_import_scholarships", rows |-> rows],
                  BulkImportScholarships(db, rows, {}))

NextImport ==
    \/ bulk_import
    \/ typeform_scholarship
    \/ decide_scholarship

SpecImport == Init /\ [][NextImport]_vars

(***************************************************************************)
(* Specification with a handler that stops between its commits and a       *)
(* sender that delivers the event again.  One delivery is followed from    *)
(* its arrival to its response; last keeps, next to the event and the      *)
(* response, the store it arrived in, the stores an uninterrupted run of   *)
(* the handler reaches from there, and how often the handler has stopped.  *)
(***************************************************************************)
InterruptedEvents == Genuine({Checkout1}) \cup TypeformEvents

\* The stores a handler run from its first line to its response leaves.
Uninterrupted(ev, d, t) == {o.db : o \in Run(Start(ev), d, t)}

Followed == "goal" \in DOMAIN last

\* One step of the followed request in slot 1; its response ends it.
Follow(r, history) ==
    \E o \in Step(r, db, tagCalls, TRUE) :
        /\ db' = o.db
        /\ tagCalls' = o.tags
        /\ IF o.r.pc = "done"
           THEN /\ reqs' = [reqs EXCEPT ![1] = IdleReq]
                /\ last' = [history EXCEPT !.resp = o.r.resp]
           ELSE /\ reqs' = [reqs EXCEPT ![1] = o.r]
                /\ last' = history
        /\ UNCHANGED cfg

deliver ==
    /\ Quiet
    /\ \E ev \in InterruptedEvents :
         Follow(Start(ev), [ev |-> ev, resp |-> NoResp, start |-> db,
                            goal |-> Uninterrupted(ev, db, tagCalls), stops |-> 0])

proceed ==
    /\ reqs[1].pc \notin {"idle", "stopped"}
    /\ Follow(reqs[1], last)

\* The process dies after a commit of the request and before its response:
\* what the session had flushed is lost, what it had committed stays.
stop ==
    /\ reqs[1].pc \notin {"idle", "stopped"}
    /\ db # last.start
    /\ last.stops < MaxStops
    /\ reqs' = [reqs EXCEPT ![1] = [IdleReq EXCEPT !.pc = "stopped", !.ev = reqs[1].ev]]
    /\ last' = [last EXCEPT !.stops = @ + 1]
    /\ UNCHANGED <<db, tagCalls, cfg>>

\* The sender got no response and sends the event again.
redeliver ==
    /\ reqs[1].pc = "stopped"
    /\ Follow(Start(reqs[1].ev), last)

NextCrash ==
    \/ kit_tag_added
    \/ typeform_scholarship
    \/ decide_scholarship
    \/ deliver
    \/ proceed
    \/ stop
    \/ redeliver

\* A handler in flight takes its next step and a sender without a response
\* retries.
SpecCrash ==
    Init /\ [][NextCrash]_vars /\ WF_vars(proceed) /\ WF_vars(redeliver)

(***************************************************************************)
(* Specification with the dashboard password: basic_auth_middleware        *)
(* (main.py) in front of a webhook handler and of the management API.  A   *)
(* path is the sequence of its pieces, a header value the sequence of its  *)
(* parts.                                                                  *)
(***************************************************************************)
StartsWith(text, prefix) ==
    Len(text) >= Len(prefix) /\ SubSeq(text, 1, Len(prefix)) = prefix

\* _PUBLIC_PREFIXES, main.py line 52
PublicPrefixes ==
    { <<"/api", "/webhook", "/">>, <<"/docs">>, <<"/openapi.json">>, <<"/assets", "/">> }

\* base64 of a text; a value that is no encoding of any text is <<"bad">>.
B64(text) == <<"b64", text>>

\* decoded.split(":", 1), lines 66-67: the text after the first colon; the
\* unpacking raises when there is no colon.
HasColon(text) == \E i \in 1..Len(text) : text[i] = ":"

AfterColon(text) ==
    LET i == CHOOSE k \in 1..Len(text) :
                 text[k] = ":" /\ \A j \in 1..(k - 1) : text[j] # ":"
    IN SubSeq(text, i + 1, Len(text))

BasicAuthAnyBasic(auth, password) == auth # <<>> /\ auth[1] = "Basic "

\* lines 62-70: a Basic header whose value decodes to user:password with the
\* configured password; any exception counts as no credentials.
BasicAuthOk(auth, password) ==
    /\ auth # <<>>
    /\ auth[1] = "Basic "
    /\ auth[2][1] = "b64"
    /\ HasColon(auth[2][2])
    /\ AfterColon(auth[2][2]) = password

\* basic_auth_middleware, lines 55-80: TRUE when call_next is called, FALSE
\* when the middleware answers 401 itself.
BasicAuthMiddleware(password, path, auth) ==
    \/ password = <<>>
    \/ \E prefix \in PublicPrefixes : StartsWith(path, prefix)
    \/ BasicAuthOk(auth, password)

\* Authorization headers: none, the password after a user name, after no
\* user name, a wrong password, the password as user name, a password with
\* a colon in front, no colon, another scheme, a value that does not decode.
AuthHeaders ==
    { <<>>,
      <<"Basic ", B64(<<"u", ":", "p", "w">>)>>,
      <<"Basic ", B64(<<":", "p", "w">>)>>,
      <<"Basic ", B64(<<"u", ":", "x">>)>>,
      <<"Basic ", B64(<<"p", "w", ":", "u">>)>>,
      <<"Basic ", B64(<<"u", ":", ":", "p", "w">>)>>,
      <<"Basic ", B64(<<"p", "w">>)>>,
      <<"Bearer ", B64(<<"u", ":", "p", "w">>)>>,
      <<"Basic ", <<"bad">>>> }

StudentsPath == <<"/api", "/students", "/">>

\* Paths without a handler that changes the store: the documentation, a
\* path that only begins like it, an asset, the webhook prefix and the
\* asset prefix without their final slash, the front page.
OtherPaths ==
    { <<"/docs">>, <<"/docs", "x">>, <<"/assets", "/", "a.js">>, <<"/assets">>,
      <<"/api", "/webhook">>, <<"/">> }

KitPath(ev) == <<"/api", "/webhook", "/", "kit", "/", ev.kit_tag>>

\* The middleware's own response.
Unauthorized(req) ==
    /\ last' = [ev |-> req, resp |-> ErrResp(401), handled |-> FALSE]
    /\ UNCHANGED <<db, reqs, tagCalls, cfg>>

\* POST /api/webhook/kit/{kit_tag}
webhook_request ==
    /\ Quiet
    /\ \E ev \in KitEvents : \E auth \in AuthHeaders :
         LET req == [path |-> KitPath(ev), auth |-> auth] @@ ev
         IN IF BasicAuthMiddleware(cfg.dashboard, req.path, auth)
            THEN /\ \E o \in Run(Start(ev), db, tagCalls) :
                      /\ db' = o.db
                      /\ tagCalls' = o.tags
                      /\ last' = [ev |-> req, resp |-> o.r.resp, handled |-> TRUE]
                 /\ UNCHANGED <<reqs, cfg>>
            ELSE Unauthorized(req)

\* POST /api/students/
students_request ==
    /\ Quiet
    /\ \E email \in {EmailA, EmailB} : \E auth \in AuthHeaders :
         LET req == [src |-> "create_student", path |-> StudentsPath, auth |-> auth,
                     email |-> email]
         IN IF BasicAuthMiddleware(cfg.dashboard, req.path, auth)
            THEN /\ db' = CreateStudent(db, NextId(db.students), email, <<"Al">>, <<>>)
                 /\ last' = [ev |-> req, resp |-> Resp(201, "", <<>>, "none"),
                             handled |-> TRUE]
                 /\ UNCHANGED <<reqs, tagCalls, cfg>>
            ELSE Unauthorized(req)

\* GET of a page, an asset or a path no route serves
other_request ==
    /\ Quiet
    /\ \E path \in OtherPaths : \E auth \in AuthHeaders :
         LET req == [src |-> "get", path |-> path, auth |-> auth]
         IN IF BasicAuthMiddleware(cfg.dashboard, path, auth)
            THEN /\ last' = [ev |-> req, resp |-> Resp(200, "", <<>>, "none"),
                             handled |-> TRUE]
                 /\ UNCHANGED <<db, reqs, tagCalls, cfg>>
            ELSE Unauthorized(req)

\* DASHBOARD_PASSWORD, main.py line 49: set, or empty.
InitAuth ==
    /\ db = SeededDb
    /\ reqs = [s \in Slots |-> IdleReq]
    /\ last = [ev |-> NoEvent, resp |-> NoResp]
    /\ tagCalls = NoTagCalls
    /\ \E password \in {<<"p", "w">>, <<>>} :
         cfg = [kit |-> "ks", stripe |-> "ss", typeform |-> "ts", kit_api |-> "text_errors",
                dashboard |-> password]

NextAuth ==
    \/ webhook_request
    \/ students_request
    \/ other_request

SpecAuth == InitAuth /\ [][NextAuth]_vars

(***************************************************************************)
(* Specification with a tagging service whose error bodies need not be     *)
(* readable text.                                                          *)
(***************************************************************************)
InitTag ==
    /\ db = SeededDb
    /\ reqs = [s \in Slots |-> IdleReq]
    /\ last = [ev |-> NoEvent, resp |-> NoResp]
    /\ tagCalls = NoTagCalls
    /\ cfg = [kit |-> "ks", stripe |-> "ss", typeform |-> "ts", kit_api |-> "any_errors"]

NextTag ==
    \/ kit_tag_added
    \/ form_submission
    \/ typeform_onboarding

SpecTag == InitTag /\ [][NextTag]_vars

(***************************************************************************)
(* Specification with rejected requests: bad credentials, unprocessed      *)
(* event types, invalid payloads, with the secrets configured or not.      *)
(***************************************************************************)
InitReject ==
    /\ db = SeededDb
    /\ reqs = [s \in Slots |-> IdleReq]
    /\ last = [ev |-> NoEvent, resp |-> NoResp]
    /\ tagCalls = NoTagCalls
    /\ cfg \in Configs

kit_request ==
    \E ev \in {KitEvent("tag_p", "ks", EmailA, <<"Ann">>)} \cup RejectedKitEvents : Handle(ev)

form_request ==
    \E ev \in {FormEvent(<<"q">>, "ks", EmailA, <<"Ann">>, <<>>, <<>>)} \cup RejectedFormEvents :
        Handle(ev)

stripe_request ==
    \E ev \in Genuine({Checkout1}) \cup ForgedStripeEvents \cup InvalidStripeEvents : Handle(ev)

typeform_request ==
    \E ev \in TypeformEvents \cup ForgedTypeformEvents \cup InvalidTypeformEvents : Handle(ev)

NextReject ==
    \/ kit_request
    \/ form_request
    \/ stripe_request
    \/ typeform_request

SpecReject == InitReject /\ [][NextReject]_vars

(***************************************************************************)
(* What the claims speak of                                                *)
(***************************************************************************)
Creating(ev) == ev.src \in {"kit", "form", "stripe", "typeform"}

\* The email an event carries.
EventEmail(ev) ==
    CASE ev.src = "stripe" ->
           (IF ev.body.object.customer_email # <<>> THEN ev.body.object.customer_email
            ELSE ev.body.object.details_email)
      [] ev.src = "typeform" ->
           Pop(ParseTypeformAnswers(ev.body.answers, NoFields, NoFields), "email", <<>>)
      [] OTHER -> ev.email

\* The offerings an event names.
EventOfferings(ev) ==
    CASE ev.src = "kit" -> {p.id : p \in {q \in Products : q.kit_tag = ev.kit_tag}}
      [] ev.src = "stripe" -> {p.id : p \in StripeProducts(Products, ev.body.object)}
      [] OTHER -> {p.id : p \in {q \in Products : q.product_id = ev.product_id}}

Enrolled(l) ==
    /\ Creating(l.ev)
    /\ l.resp.code = 200
    /\ l.resp.status \in {"enrolled", "already_enrolled"}

PersonsFor(d, email) == {s \in d.students : CleanEmail(s.email) = CleanEmail(email)}

EnrollmentsFor(d, email, pid) ==
    {e \in d.enrollments :
        e.product_id = pid /\ \E s \in PersonsFor(d, email) : s.id = e.student_id}

SamePair(ev1, ev2) ==
    /\ CleanEmail(EventEmail(ev1)) = CleanEmail(EventEmail(ev2))
    /\ EventOfferings(ev1) = EventOfferings(ev2)

\* C1: a creating event leaves exactly one Person for its email and exactly
\* one Enrollment for its (email, offering); it answers "enrolled" when the
\* pair had no Enrollment, and the same event delivered again right after
\* answers "already_enrolled" with the same enrollment_id.
C1_IdempotentRedelivery ==
    [][Creating(last'.ev) =>
        LET ev == last'.ev
            email == EventEmail(ev)
        IN /\ Enrolled(last')
           /\ Cardinality(PersonsFor(db', email)) = 1
           /\ \A pid \in EventOfferings(ev) :
                /\ Cardinality(EnrollmentsFor(db', email, pid)) = 1
                /\ EnrollmentsFor(db, email, pid) = {} => last'.resp.status = "enrolled"
           /\ (last.ev = ev /\ Enrolled(last)) =>
                /\ last'.resp.status = "already_enrolled"
                /\ last'.resp.enrollment_id = last.resp.enrollment_id
    ]_vars

C1_Witness ==
    /\ last.ev \in KitEvents
    /\ last.resp.status = "already_enrolled"
    /\ \E e \in db.enrollments : e.enrollment_id = last.resp.enrollment_id /\ e.source = "kit"

\* C2: when a second provider reports a pair right after another provider
\* did, no Enrollment is added, the answer is "already_enrolled" with the
\* first one's enrollment_id, and a payment carried by the second event is
\* linked when the Enrollment had no payment link.
C2_SecondProviderLinks ==
    [][(Enrolled(last) /\ Creating(last'.ev) /\ last'.ev.src # last.ev.src
          /\ SamePair(last.ev, last'.ev)) =>
        LET ev == last'.ev
            email == EventEmail(ev)
        IN /\ Enrolled(last')
           /\ last'.resp.status = "already_enrolled"
           /\ last'.resp.enrollment_id = last.resp.enrollment_id
           /\ \A pid \in EventOfferings(ev) :
                /\ Cardinality(EnrollmentsFor(db', email, pid))
                     = Cardinality(EnrollmentsFor(db, email, pid))
                /\ ev.src = "stripe" =>
                     \A e \in EnrollmentsFor(db, email, pid) : e.sale_id = 0 =>
                        \E e2 \in db'.enrollments : \E x \in db'.sales :
                            /\ e2.id = e.id
                            /\ e2.sale_id = x.id
                            /\ x.sale_id = StripeSaleKey(ev.body.object.id)
    ]_vars

C2_Witness ==
    /\ last.ev.src = "stripe"
    /\ last.resp.status = "already_enrolled"
    /\ \E e \in db.enrollments : \E x \in db.sales :
         /\ e.enrollment_id = last.resp.enrollment_id
         /\ e.source = "kit"
         /\ e.sale_id = x.id
         /\ x.sale_id = StripeSaleKey(last.ev.body.object.id)

\* C3: a delivery of the subscriber-tagged event that completes once another
\* delivery of it has committed the Enrollment is answered with a success
\* response, however the two deliveries interleaved.
C3_RaceReturnsExisting ==
    (/\ last.ev \in KitEvents
     /\ \E e \in db.enrollments :
          /\ e.source = "kit"
          /\ e.enrollment_id = EnrollmentKey(CleanEmail(EventEmail(last.ev)), <<"p">>))
    => last.resp.code = 200

\* C4: a later delivery of a checkout event finds the Payment with its
\* transaction key and leaves every field of it unchanged.
C4_PaymentUnchangedOnRedelivery ==
    [][last'.ev.src = "stripe" =>
        \A x \in db.sales :
            x.sale_id = StripeSaleKey(last'.ev.body.object.id) => x \in db'.sales
    ]_vars

\* C5: the committed store never holds two Persons with one normalized
\* email, every request resolves its email to the Person with that
\* normalized email, and a request that answers success leaves that Person
\* in the store.
C5_OnePersonPerEmail ==
    /\ \A s1, s2 \in db.students :
         CleanEmail(s1.email) = CleanEmail(s2.email) => s1 = s2
    /\ \A slot \in Slots :
         reqs[slot].student.id # 0 =>
            CleanEmail(reqs[slot].student.email) = CleanEmail(reqs[slot].email)
    /\ Enrolled(last) => Cardinality(PersonsFor(db, EventEmail(last.ev))) = 1

C5_Witness ==
    /\ Enrolled(last)
    /\ last.ev.src = "kit"
    /\ last.ev.email = EmailAVariant
    /\ \E s \in db.students : s.email = EmailA /\ s.first_name = <<"Ann">>

\* C6: at most one Enrollment per (Person, Offering).
C6_OneEnrollmentPerPair ==
    \A e1, e2 \in db.enrollments :
        (e1.student_id = e2.student_id /\ e1.product_id = e2.product_id) => e1 = e2

AcceptedFor(d, x) ==
    {a \in d.apps : /\ CleanEmail(a.email) = x.buyer_email
                    /\ a.product_id = x.product_id
                    /\ a.status = "accepted"}

EnrolledFor(d, x) ==
    {a \in d.apps : /\ CleanEmail(a.email) = x.buyer_email
                    /\ a.product_id = x.product_id
                    /\ a.enrolled}

\* C7: a checkout Payment that enters the committed store while an accepted
\* application matches it enters it flagged, with the application marked
\* enrolled; and no committed store holds a flagged Payment without an
\* enrolled application or an enrolled application without a flagged
\* Payment.
C7_ScholarshipMatchAtomic ==
    [][/\ \A x \in db'.sales :
            (x.source = "stripe" /\ (\A y \in db.sales : y.id # x.id)
               /\ AcceptedFor(db, x) # {})
            => (x.scholarship = 1 /\ EnrolledFor(db', x) # {})
       /\ \A x \in db'.sales : x.scholarship = 1 => EnrolledFor(db', x) # {}
       /\ \A a \in db'.apps : a.enrolled =>
            \E x \in db'.sales : x.scholarship = 1 /\ a \in EnrolledFor(db', x)
    ]_vars

C7_Witness ==
    \E x \in db.sales : x.source = "stripe" /\ x.scholarship = 1 /\ EnrolledFor(db, x) # {}

BadCredentialEvents ==
    {ev \in RejectedKitEvents \cup RejectedFormEvents : ev.secret # "ks"}
      \cup ForgedStripeEvents \cup ForgedTypeformEvents

ProviderSecret(ev) ==
    CASE ev.src = "stripe" -> cfg.stripe
      [] ev.src = "typeform" -> cfg.typeform
      [] OTHER -> cfg.kit

\* C8: with the provider's secret configured, a request whose secret or
\* signature does not verify is answered 401 and changes neither the store
\* nor the tagging calls.
C8_AuthFailureNoEffect ==
    [][(last'.ev \in BadCredentialEvents /\ ProviderSecret(last'.ev) # "") =>
        /\ last'.resp.code = 401
        /\ db' = db
        /\ tagCalls' = tagCalls
    ]_vars

C8_Witness ==
    /\ last.ev \in BadCredentialEvents
    /\ last.ev.src = "kit"
    /\ last.resp.code = 401
    /\ db.enrollments # {}

\* The value the header gives for a key: that of its last key=value item
\* with the key, items of any other form being passed over.
HeaderValue(header, key) ==
    LET at == {i \in 1..Len(header) : Len(header[i]) = 2 /\ header[i][1] = key}
    IN IF at = {} THEN <<>>
       ELSE header[CHOOSE i \in at : \A k \in at : k <= i][2]

SignedV1(ev) ==
    HeaderValue(ev.sig_header, "v1")
        = Hmac(cfg.stripe, <<HeaderValue(ev.sig_header, "t"), ev.body>>)

\* C9 as stated: with the payment-processor secret configured, a checkout
\* request is accepted exactly when the v1 value of its header equals the
\* HMAC of the header's t value and the body under the secret.
C9_AcceptedIffV1Matches ==
    (last.ev.src = "stripe" /\ cfg.stripe # "") =>
        (last.resp.code # 401 <=> SignedV1(last.ev))

\* C9: with the payment-processor secret configured, a checkout request is
\* accepted exactly when every item of its header has the form key=value
\* and the header's v1 value equals the HMAC of the header's t value and the
\* body under the secret; a body altered under a kept header is rejected and
\* an unaltered body with the header computed for it is accepted.
C9_StripeSignature ==
    (last.ev.src = "stripe" /\ cfg.stripe # "") =>
        /\ last.resp.code # 401 <=>
             /\ \A i \in 1..Len(last.ev.sig_header) : Len(last.ev.sig_header[i]) = 2
             /\ SignedV1(last.ev)
        /\ last.resp.code = 401 <=> last.ev \in ForgedStripeEvents

C9_Witness ==
    /\ last.ev = StripeEvent(Checkout1Tampered, StripeSign("ss", "t1", Checkout1))
    /\ last.resp.code = 401
    /\ \E x \in db.sales : x.sale_id = StripeSaleKey("cs_1")

\* C10: an Enrollment's payment link, once set, keeps its value.
C10_LinkNeverOverwritten ==
    [][\A e \in db.enrollments :
         e.sale_id # 0 => \E e2 \in db'.enrollments : e2.id = e.id /\ e2.sale_id = e.sale_id
    ]_vars

C10_Witness ==
    /\ last.ev.src = "stripe"
    /\ last.resp.status = "already_enrolled"
    /\ \E e \in db.enrollments : \E x \in db.sales :
         /\ e.enrollment_id = last.resp.enrollment_id
         /\ e.sale_id = x.id
         /\ x.sale_id # StripeSaleKey(last.ev.body.object.id)

\* C11: no webhook event changes the first or last name of a Person that
\* exists when the event arrives.
C11_NamesKept ==
    [][\A s \in db.students : \A s2 \in db'.students :
         s2.id = s.id => (s2.first_name = s.first_name /\ s2.last_name = s.last_name)
    ]_vars

C11_Witness ==
    /\ last.ev \in OnboardingEvents
    /\ last.ev.body = OnboardingMapped
    /\ last.resp.status = "already_enrolled"
    /\ \E s \in db.students : s.email = EmailA /\ s.first_name = <<"Ann">>

\* The attribute an answer's reference stands for in an onboarding survey of
\* offering p, and the non-null values an event carries for an attribute.
TargetOf(ref) ==
    LET map == ProductById(1).typeform_field_map
    IN IF ref \in DOMAIN map THEN map[ref] ELSE ref

Carried(ev, f) ==
    IF ev.src # "typeform" THEN {}
    ELSE {ev.body.answers[i].value :
            i \in {k \in 1..Len(ev.body.answers) :
                     /\ ~ev.body.answers[k].null
                     /\ TargetOf(ev.body.answers[k].ref) = f}}

\* C12: an attribute of a Person that holds a value keeps holding one, and
\* an event changes an attribute only to a non-null value that the event
\* carries for it.
C12_MonotoneEnrichment ==
    [][\A s \in db.students : \A s2 \in db'.students :
         s2.id = s.id =>
           \A f \in StudentAttrs :
              /\ s.attrs[f] # NullV => s2.attrs[f] # NullV
              /\ s2.attrs[f] # s.attrs[f] =>
                   \E v \in Carried(last'.ev, f) : s2.attrs[f] = Val(v)
              /\ s.onboarding_date # NullV => s2.onboarding_date # NullV
    ]_vars

C12_Witness ==
    /\ last.ev \in OnboardingEvents
    /\ last.ev.body = OnboardingMapped
    /\ last.resp.code = 200
    /\ \E s \in db.students :
         /\ s.attrs["gender"] = Val(<<"x">>)
         /\ s.attrs["country"] = Val(<<"Peru">>)
         /\ s.onboarding_date # NullV

\* C20: an answer whose reference is both a key of the offering's field map
\* and a canonical attribute name is stored under the map's target, and the
\* attribute named by the reference keeps its value; in the onboarding
\* survey (attributes of the Person) and in the completion survey
\* (attributes of the Enrollment).
C20_ExplicitMapWins ==
    [][/\ (last'.ev \in OnboardingEvents /\ last'.resp.code = 200) =>
          \A i \in 1..Len(last'.ev.body.answers) :
            LET a == last'.ev.body.answers[i]
                map == ProductById(1).typeform_field_map
            IN (~a.null /\ a.ref \in DOMAIN map /\ a.ref \in StudentFields) =>
                 \A s2 \in PersonsFor(db', EventEmail(last'.ev)) :
                    /\ s2.attrs[map[a.ref]] = Val(a.value)
                    /\ \A s \in db.students : s.id = s2.id => s2.attrs[a.ref] = s.attrs[a.ref]
                    /\ (\A s \in db.students : s.id # s2.id) => s2.attrs[a.ref] = NullV
       /\ (last'.ev \in CompletionEvents /\ last'.resp.status = "survey_saved") =>
          \A i \in 1..Len(last'.ev.body.answers) :
            LET a == last'.ev.body.answers[i]
                map == (CHOOSE p \in Products :
                          p.product_id = last'.ev.product_id).completion_survey_field_map
            IN (~a.null /\ a.ref \in DOMAIN map /\ a.ref \in EnrollmentSurveyFields) =>
                 \A e2 \in db'.enrollments :
                    e2.enrollment_id = last'.resp.enrollment_id =>
                      /\ e2.survey[map[a.ref]] = Val(a.value)
                      /\ \A e \in db.enrollments :
                           e.id = e2.id => e2.survey[a.ref] = e.survey[a.ref]
    ]_vars

C20_Witness ==
    /\ last.ev \in CompletionEvents
    /\ last.ev.body = Completion2
    /\ last.resp.status = "survey_saved"
    /\ \E e \in db.enrollments :
         e.survey["testimonial"] = Val(<<"good">>) /\ e.survey["satisfaction"] = NullV
    /\ \E s \in db.students :
         s.attrs["country"] = Val(<<"Peru">>) /\ s.attrs["timezone"] = NullV

\* C13: a Person that a step creates gets a sequence number greater than
\* the number of every Person in the store, and greater than the number of
\* the Person that the step before deleted.
C13_NumbersNeverReused ==
    [][\A s2 \in db'.students :
         (\A s \in db.students : s.id # s2.id) =>
            /\ \A s \in db.students : s2.student_number > s.student_number
            /\ (last.ev.src = "delete_student" /\ last.resp.code = 204) =>
                  s2.student_number > last.ev.student_number
    ]_vars

\* C14: the committed store never holds two Persons with one sequence
\* number, however the requests for two new emails interleave.
C14_NumbersUnique ==
    \A s1, s2 \in db.students : s1.student_number = s2.student_number => s1 = s2

C14_Witness ==
    /\ last.ev.src = "form"
    /\ last.ev.email = EmailB
    /\ last.resp.code = 500
    /\ \E s \in db.students : s.email = EmailA /\ s.student_number = 1
    /\ \A s \in db.students : s.email # EmailB

\* C18: a request makes an outbound tagging call only when it holds no
\* uncommitted write and its Enrollment is in the committed store.
C18_TagAfterCommit ==
    [][\A slot \in Slots :
         (reqs[slot].pc \in {"tag_rsvp", "tag_onboard"} /\ reqs'[slot] # reqs[slot]) =>
            /\ ~reqs[slot].intx
            /\ \E e \in db.enrollments :
                 e.enrollment_id = EnrollmentKey(reqs[slot].student.email,
                                                 ProductById(reqs[slot].product).product_id)
    ]_vars

SurveyApplied(s) ==
    /\ s.attrs["country"] = Val(<<"Norway">>)
    /\ s.onboarding_date = Val("2026-01-05T10:00:00Z")

\* C15: after the onboarding submission and a creating event for the same
\* email and offering, in either order, there is one Person and one
\* Enrollment for the pair and the Person carries the submission's
\* attributes; a submission that finds no Enrollment creates it, and a later
\* creating event returns that Enrollment.
C15_EitherOrder ==
    [][LET ev == last'.ev
       IN (Creating(ev) /\ 1 \in EventOfferings(ev) /\ CleanEmail(EventEmail(ev)) = EmailA) =>
            /\ Cardinality(PersonsFor(db', EmailA)) = 1
            /\ Cardinality(EnrollmentsFor(db', EmailA, 1)) = 1
            /\ (ev.src = "typeform" \/ \E s \in PersonsFor(db, EmailA) : SurveyApplied(s)) =>
                 \A s \in PersonsFor(db', EmailA) : SurveyApplied(s)
            /\ (ev.src = "typeform" /\ EnrollmentsFor(db, EmailA, 1) = {}) =>
                 /\ last'.resp.status = "enrolled"
                 /\ \A e \in EnrollmentsFor(db', EmailA, 1) : e.source = "typeform"
            /\ (ev.src # "typeform" /\ \E e \in EnrollmentsFor(db, EmailA, 1) : e.source = "typeform") =>
                 /\ last'.resp.status = "already_enrolled"
                 /\ \A e \in EnrollmentsFor(db', EmailA, 1) :
                      /\ e.source = "typeform"
                      /\ e.enrollment_id = last'.resp.enrollment_id
    ]_vars

C15_Witness ==
    /\ last.ev.src = "kit"
    /\ last.resp.status = "already_enrolled"
    /\ \E e \in EnrollmentsFor(db, EmailA, 1) : e.source = "typeform"
    /\ \E s \in PersonsFor(db, EmailA) : SurveyApplied(s)

RsvpTags == {p.kit_rsvp_tag : p \in Products} \ {""}

\* C17: the count of post-enrollment tagging calls for a subscriber changes
\* only in a step that creates the Enrollment of an offering declaring the
\* tag, never in a step answered already_enrolled, and never exceeds one
\* per Enrollment.
C17_RsvpTagOnCreationOnly ==
    [][\A k \in DOMAIN tagCalls' :
         k[2] \in RsvpTags =>
           /\ TagCount(tagCalls', k) <= 1
           /\ TagCount(tagCalls', k) # TagCount(tagCalls, k) =>
                /\ last'.resp.status = "enrolled"
                /\ \E e \in db'.enrollments :
                     /\ \A old \in db.enrollments : old.id # e.id
                     /\ ProductById(e.product_id).kit_rsvp_tag = k[2]
                     /\ e.enrollment_id = EnrollmentKey(k[1], ProductById(e.product_id).product_id)
    ]_vars

C17_Witness ==
    /\ last.ev.src = "stripe"
    /\ last.resp.status = "already_enrolled"
    /\ TagCount(tagCalls, <<EmailA, "rsvp_p">>) = 1
    /\ \E e \in EnrollmentsFor(db, EmailA, 1) : e.source = "kit"

\* C19: whatever the tagging service does, a request that created its
\* Enrollment is answered with the success response carrying the tagging
\* outcome as a flag, and the Enrollment stays committed.
C19_TagFailureIsOnlyAFlag ==
    [][\A e \in db'.enrollments :
         ((\A old \in db.enrollments : old.id # e.id)
            /\ ProductById(e.product_id).kit_rsvp_tag # "") =>
              /\ last'.resp.code = 200
              /\ last'.resp.status = "enrolled"
              /\ last'.resp.kit_rsvp_tagged \in {"true", "false"}
    ]_vars

\* The email a completion event carries, where it carries exactly one.
CompletionEmails(ev) ==
    {ev.body.answers[i].value : i \in {j \in DOMAIN ev.body.answers :
                                        ev.body.answers[j].type = "email"}}

Accepted(ev) ==
    /\ ev.src = "completion"
    /\ ev.body.event_type = "form_response"
    /\ ev.sig_header = TypeformSign(cfg.typeform, ev.body)
    /\ \E p \in Products :
         /\ p.product_id = ev.product_id
         /\ p.completion_survey_form_id \in {"", ev.body.form_id}
    /\ Cardinality(CompletionEmails(ev)) = 1

EnrolledIn(d, email, slug) ==
    \E s \in PersonsFor(d, email), e \in d.enrollments, p \in Products :
        p.product_id = slug /\ e.student_id = s.id /\ e.product_id = p.id

\* C16: a completion survey for an email with no Person, or for a Person
\* with no Enrollment in the offering, is answered not found and leaves the
\* store and the tagging calls as they were; no completion survey adds a
\* Person or an Enrollment.
C16_CompletionNotFound ==
    [][LET ev == last'.ev
       IN Accepted(ev) =>
            /\ db'.students = db.students
            /\ {e.id : e \in db'.enrollments} = {e.id : e \in db.enrollments}
            /\ (\A m \in CompletionEmails(ev) : ~EnrolledIn(db, CleanEmail(m), ev.product_id)) =>
                 /\ last'.resp.code = 404
                 /\ db' = db
                 /\ tagCalls' = tagCalls
    ]_vars

C16_Witness ==
    /\ Accepted(last.ev)
    /\ last.ev.product_id = <<"q">>
    /\ last.resp.code = 404
    /\ PersonsFor(db, EmailA) # {}
    /\ \E e \in db.enrollments : e.survey_response_type = Val("completion")

\* The positions of an event's email answers that the convention rule does
\* not take: answered, of type email, under a reference that is no canonical
\* attribute.
FreeEmailAnswers(ev) ==
    {i \in 1..Len(ev.body.answers) :
        /\ ~ev.body.answers[i].null
        /\ ev.body.answers[i].type = "email"
        /\ ev.body.answers[i].ref \notin StudentFields}

TextAttrs == StudentAttrs \ {"dob", "claude_confidence_level"}

\* C21: an onboarding submission to an offering without field map, with an
\* email answer that no rule has taken, succeeds; the first such answer is
\* its identity email whatever the reference; each answer under the
\* reference of a canonical attribute is applied to the Person of that
\* email; the other answers change nothing.
C21_EmailAutoDetected ==
    [][LET ev == last'.ev
           free == FreeEmailAnswers(ev)
           first == CHOOSE i \in free : \A j \in free : i <= j
           identity == CleanEmail(ev.body.answers[first].value)
       IN (ev \in PlainOnboardingEvents /\ free # {}) =>
            /\ last'.resp.code = 200
            /\ last'.resp.enrollment_id = EnrollmentKey(identity, <<"q">>)
            /\ PersonsFor(db', identity) # {}
            /\ \A s \in db.students : PersonsFor(db', s.email) = PersonsFor(db, s.email)
                                        \/ CleanEmail(s.email) = identity
            /\ \A s2 \in db'.students : CleanEmail(s2.email) # identity => s2 \in db.students
            /\ \A s2 \in PersonsFor(db', identity) : \A f \in TextAttrs :
                 LET given == {i \in 1..Len(ev.body.answers) :
                                 ~ev.body.answers[i].null /\ ev.body.answers[i].ref = f}
                 IN /\ \A i \in given : s2.attrs[f] = Val(ev.body.answers[i].value)
                    /\ given = {} => \A s \in db.students : s.id = s2.id => s2.attrs[f] = s.attrs[f]
                    /\ (given = {} /\ \A s \in db.students : s.id # s2.id) => s2.attrs[f] = NullV
    ]_vars

C21_Witness ==
    /\ last.ev \in PlainOnboardingEvents
    /\ last.ev.body = OnboardingAltFirst
    /\ last.resp.status = "already_enrolled"
    /\ \E s \in PersonsFor(db, EmailA) :
         /\ s.attrs["alternative_email"] = Val(EmailB)
         /\ s.attrs["gender"] = Val(<<"y">>)
         /\ s.attrs["country"] = Val(<<"Chile">>)
    /\ PersonsFor(db, EmailB) = {}

Slugs(rows) == {p.product_id : p \in rows}

CheckoutWithEmail(ev) ==
    /\ ev.src = "stripe"
    /\ SignedV1(ev)
    /\ ev.body.type = "checkout.session.completed"
    /\ EventEmail(ev) # <<>>

ByProductId(session) ==
    IF session.meta_product_id = <<>> THEN {}
    ELSE {p \in Products : p.product_id = session.meta_product_id}

ByPrice(price_id) ==
    IF price_id = "" THEN {} ELSE {p \in Products : p.stripe_price_id = price_id}

\* The response to a checkout whose offering is one of rows: not found for
\* none, else the Enrollment of the email in that offering.
AnsweredFor(l, rows) ==
    IF rows = {} THEN l.resp.code = 404
    ELSE /\ l.resp.code = 200
         /\ \E p \in rows :
              l.resp.enrollment_id = EnrollmentKey(CleanEmail(EventEmail(l.ev)), p.product_id)

\* C22 as stated: the offering of a checkout is found by the metadata
\* product_id, else by the metadata price_id, else by the price of the first
\* line item, each step being tried when those before found no offering.
C22_ResolutionChain ==
    [][CheckoutWithEmail(last'.ev) =>
         LET session == last'.ev.body.object
             first == ByProductId(session)
             second == ByPrice(session.meta_price_id)
             third == ByPrice(session.line_price_id)
         IN AnsweredFor(last', IF first # {} THEN first
                               ELSE IF second # {} THEN second ELSE third)
    ]_vars

\* C22: the offering of a checkout is found by the metadata product_id,
\* else by one price: the metadata price_id where the metadata has one, the
\* price of the first line item where it has none.  A checkout whose
\* metadata price_id belongs to no offering is answered not found whatever
\* its line item.
C22_ResolutionOrder ==
    [][CheckoutWithEmail(last'.ev) =>
         LET session == last'.ev.body.object
             first == ByProductId(session)
             second == ByPrice(session.meta_price_id)
             third == ByPrice(session.line_price_id)
         IN AnsweredFor(last', IF first # {} THEN first
                               ELSE IF session.meta_price_id # "" THEN second ELSE third)
    ]_vars

C22_Witness ==
    /\ last.ev \in Genuine({CheckoutStalePrice})
    /\ last.resp.code = 404
    /\ \E e \in db.enrollments : e.enrollment_id = EnrollmentKey(EmailB, <<"q">>)
    /\ \E e \in db.enrollments : e.enrollment_id = EnrollmentKey(EmailB, <<"p">>)
    /\ \E e \in db.enrollments : e.enrollment_id = EnrollmentKey(EmailA, <<"p">>) /\ e.source = "stripe"

Unprocessed(ev) ==
    \/ /\ ev.src = "stripe"
       /\ SignedV1(ev)
       /\ ev.body.type # "checkout.session.completed"
    \/ /\ ev.src \in {"typeform", "completion"}
       /\ ev.sig_header = TypeformSign(cfg.typeform, ev.body)
       /\ ev.body.event_type # "form_response"

\* C23: a delivery of an event type that the handler does not process is
\* answered with status ignored, and neither the store nor the tagging
\* calls change.
C23_IgnoredChangesNothing ==
    [][Unprocessed(last'.ev) =>
         /\ last'.resp.code = 200
         /\ last'.resp.status = "ignored"
         /\ db' = db
         /\ tagCalls' = tagCalls
    ]_vars

C23_Witness ==
    /\ last.ev.src = "completion"
    /\ Unprocessed(last.ev)
    /\ last.resp.status = "ignored"
    /\ db.enrollments # {}
    /\ \A e \in db.enrollments : e.survey_response_type = NullV

\* A creating delivery with the right credentials and a processed type that
\* carries no email, names no offering, or comes from another form than the
\* offering's.
FailsValidation(ev) ==
    CASE ev.src = "kit" -> ev.secret = cfg.kit /\ EventOfferings(ev) = {}
      [] ev.src = "form" -> ev.secret = cfg.kit /\ EventOfferings(ev) = {}
      [] ev.src = "stripe" ->
           /\ SignedV1(ev)
           /\ ev.body.type = "checkout.session.completed"
           /\ \/ EventEmail(ev) = <<>>
              \/ /\ ByProductId(ev.body.object) = {}
                 /\ ByPrice(ev.body.object.meta_price_id) = {}
                 /\ ByPrice(ev.body.object.line_price_id) = {}
      [] ev.src = "typeform" ->
           /\ ev.sig_header = TypeformSign(cfg.typeform, ev.body)
           /\ ev.body.event_type = "form_response"
           /\ \/ EventOfferings(ev) = {}
              \/ EventEmail(ev) = <<>>
              \/ \E p \in Products :
                   /\ p.product_id = ev.product_id
                   /\ p.typeform_form_id \notin {"", ev.body.form_id}
      [] OTHER -> FALSE

\* C24: a creating delivery that fails validation or lookup is answered
\* with an error, and the store after it is the store before it.
C24_InvalidChangesNothing ==
    [][FailsValidation(last'.ev) =>
         /\ last'.resp.code \in {400, 404}
         /\ db' = db
         /\ tagCalls' = tagCalls
    ]_vars

C24_Witness ==
    /\ last.ev \in InvalidTypeformEvents
    /\ last.ev.body = OnboardingOtherForm
    /\ last.resp.code = 400
    /\ db.students # {}
    /\ PersonsFor(db, EmailB) = {}

\* The field map a survey event is read with, and the pairs of an attribute
\* and a value that the event carries: an answer stands for the attribute
\* that the map gives for its reference, else for its reference.
MapOf(ev) ==
    LET p == CHOOSE x \in Products : x.product_id = ev.product_id
    IN IF ev.src = "typeform" THEN p.typeform_field_map ELSE p.completion_survey_field_map

Mapped(ev) ==
    LET map == MapOf(ev)
    IN {<<IF ev.body.answers[i].ref \in DOMAIN map THEN map[ev.body.answers[i].ref]
          ELSE ev.body.answers[i].ref,
          ev.body.answers[i].value>>
        : i \in {k \in 1..Len(ev.body.answers) : ~ev.body.answers[k].null}}

\* The values that the coercion of an attribute's column accepts.
Accepts(f, value) ==
    /\ f = "dob" => value \in IsoDates
    /\ f \in {"claude_confidence_level"} \cup IntFields => value \in Numerics

AppliedOf(ev, attrs) == {x[1] : x \in {y \in Mapped(ev) : y[1] \in attrs /\ Accepts(y[1], y[2])}}

\* A survey event that resolves its Person (and Enrollment) succeeds; a
\* mapped attribute holds the event's value where the coercion accepts it
\* and keeps its value where not; the response reports the attributes in
\* reported(ev).
SurveyOutcome(reported(_)) ==
    LET ev == last'.ev
        mapped == Mapped(ev)
        onboard == AppliedOf(ev, StudentAttrs)
        complete == AppliedOf(ev, EnrollmentSurveyFields)
        given(f) == {Val(x[2]) : x \in {y \in mapped : y[1] = f}}
    IN /\ ev \in OnboardingEvents =>
            /\ last'.resp.code = 200
            /\ last'.resp.enriched_fields = reported(ev)
            /\ \A s2 \in PersonsFor(db', EventEmail(ev)) :
                 LET before == {s \in db.students : s.id = s2.id}
                 IN \A f \in StudentAttrs :
                      IF f \in onboard THEN s2.attrs[f] \in given(f)
                      ELSE IF before = {} THEN s2.attrs[f] = NullV
                      ELSE \A s \in before : s2.attrs[f] = s.attrs[f]
       /\ (ev \in CompletionEvents /\ last'.resp.code # 404) =>
            /\ last'.resp.code = 200
            /\ last'.resp.status = "survey_saved"
            /\ last'.resp.updated_fields = reported(ev)
            /\ \A e2 \in db'.enrollments : \A e \in db.enrollments :
                 (e2.id = e.id /\ e2.enrollment_id = last'.resp.enrollment_id) =>
                    \A f \in EnrollmentSurveyFields :
                      IF f \in complete THEN e2.survey[f] \in given(f)
                      ELSE e2.survey[f] = e.survey[f]

ReportedMapped(ev) ==
    AppliedOf(ev, IF ev.src = "typeform" THEN StudentAttrs ELSE EnrollmentSurveyFields)

ReportedWithDate(ev) ==
    ReportedMapped(ev)
      \cup (IF ev.src = "typeform" /\ ev.body.submitted_at \in IsoDateTimes
            THEN {"onboarding_date"} ELSE {})

C26_KeyIsNormalized ==
    [][Creating(last'.ev) =>
         \A e \in db'.enrollments :
            (\A old \in db.enrollments : old.id # e.id) =>
               e.enrollment_id = EnrollmentKey(CleanEmail(EventEmail(last'.ev)),
                                               ProductRow(db', e.product_id).product_id)
    ]_vars

\* C27: no step changes the slug of an offering that an Enrollment
\* references.
C27_SlugImmutableOnceReferenced ==
    [][\A p \in db.products : \A p2 \in db'.products :
         (p2.id = p.id /\ \E e \in db.enrollments : e.product_id = p.id) =>
            p2.product_id = p.product_id
    ]_vars

(***************************************************************************)
(* C28: a form_response posted to /api/webhook/typeform/scholarship with   *)
(* an email in its contact answer is handled by the scholarship handler:   *)
(* it creates one application with status pending and is answered          *)
(* "application_received".                                                 *)
(***************************************************************************)
ContactEmail(body) ==
    LET parsed == ParseScholarshipAnswers(body.answers, NoFields)
    IN CleanEmail(Pop(parsed, "email", <<>>))

C28_ScholarshipPathApplies ==
    [][(/\ last'.ev.path = ScholarshipPath
        /\ last'.ev.body.event_type = "form_response"
        /\ ContactEmail(last'.ev.body) # <<>>)
       => /\ last'.resp.status = "application_received"
          /\ \E a \in db'.apps :
               /\ db'.apps = db.apps \cup {a}
               /\ a \notin db.apps
               /\ a.status = "pending"
               /\ a.email = ContactEmail(last'.ev.body)]_vars

(***************************************************************************)
(* C29: every application starts with status pending, from the webhook and *)
(* from the bulk import; the decision endpoint can be called on an         *)
(* application in any state and each call overwrites the stored decision   *)
(* (status, tier, code, notes, decision time) with the one submitted.      *)
(***************************************************************************)
AppById(d, id) == CHOOSE a \in d.apps : a.id = id

NewApps == {a \in db'.apps : \A b \in db.apps : b.id # a.id}

StoredDecision(a) ==
    [status |-> a.status, decision_tier |-> a.decision_tier,
     discount_code |-> a.discount_code, decision_notes |-> a.decision_notes]

C29_LastDecisionStored ==
    [][/\ \A a \in NewApps : StoredDecision(a) = NoDecision /\ a.decided_at = 0
       /\ last'.ev.src = "decide_scholarship"
            => LET after == AppById(db', last'.ev.app_id)
               IN /\ StoredDecision(after) = last'.ev.decision
                  /\ after.decided_at = last'.ev.now
                  /\ \A a \in db.apps : a.id # after.id => a \in db'.apps]_vars

\* An application that was accepted and matched by a checkout, and has then
\* been decided again, at another time: rejected.
C29_Witness ==
    /\ last.ev.src = "decide_scholarship"
    /\ \E a \in db.apps :
         /\ a.enrolled
         /\ a.status = "rejected"
         /\ a.decided_at = 2
         /\ a.id = last.ev.app_id

(***************************************************************************)
(* C30: marking an application delivered sets the delivered flag and       *)
(* timestamp and leaves its decision as it was; deciding leaves the        *)
(* delivered flag and timestamp as they were; an application that is       *)
(* delivered stays delivered whatever happens next.                        *)
(***************************************************************************)
C30_DeliveryIndependentOfDecision ==
    [][/\ last'.ev.src = "mark_kit_delivered"
            => LET before == AppById(db, last'.ev.app_id)
                   after == AppById(db', last'.ev.app_id)
               IN /\ after.kit_delivered
                  /\ after.kit_delivered_at = last'.ev.now
                  /\ StoredDecision(after) = StoredDecision(before)
                  /\ after.decided_at = before.decided_at
       /\ last'.ev.src = "decide_scholarship"
            => LET before == AppById(db, last'.ev.app_id)
                   after == AppById(db', last'.ev.app_id)
               IN /\ after.kit_delivered = before.kit_delivered
                  /\ after.kit_delivered_at = before.kit_delivered_at
       /\ \A a \in db.apps :
            a.kit_delivered => \E b \in db'.apps : b.id = a.id /\ b.kit_delivered]_vars

\* An accepted application that was delivered, and a rejection of it at a
\* later time that found it delivered.
C30_Witness ==
    /\ last.ev.src = "decide_scholarship"
    /\ \E a \in db.apps :
         /\ a.id = last.ev.app_id
         /\ a.kit_delivered
         /\ a.kit_delivered_at = 1
         /\ a.decided_at = 2
         /\ a.status = "rejected"
         /\ a.processing_status = "processed"

(***************************************************************************)
(* C31: a bulk import creates at most one application per pair of          *)
(* normalized email and offering, none for a pair the store already holds, *)
(* also when the batch names a pair more than once; importing the batch    *)
(* just imported creates nothing.                                          *)
(***************************************************************************)
SamePairApps(apps, a) == {b \in apps : b.email = a.email /\ b.product_id = a.product_id}

C31_ImportDeduplicates ==
    [][last'.ev.src = "bulk_import_scholarships"
       => /\ \A a \in NewApps :
               /\ Cardinality(SamePairApps(NewApps, a)) = 1
               /\ SamePairApps(db.apps, a) = {}
          /\ last.ev = last'.ev => db'.apps = db.apps]_vars

(***************************************************************************)
(* C32: after a checkout event that is answered enrolled or                *)
(* already_enrolled, the committed store holds a Payment with the          *)
(* transaction key of the event's session.                                 *)
(***************************************************************************)
C32_PaymentStoredOnSuccess ==
    [][(/\ last'.ev.src = "stripe"
        /\ last'.ev.body.type = "checkout.session.completed"
        /\ last'.resp.status \in {"enrolled", "already_enrolled"})
       => \E x \in db'.sales : x.sale_id = StripeSaleKey(last'.ev.body.object.id)]_vars

(***************************************************************************)
(* C33: when a handler has stopped after one of its commits and before     *)
(* the commit of the Enrollment, delivering the event again eventually     *)
(* brings the store to what one uninterrupted delivery would have left:    *)
(* the same Person, Payment and Enrollment with the same payment link.     *)
(***************************************************************************)
Stopped == reqs[1].pc = "stopped"

\* The Persons, Payments and Enrollments of a store.
Canonical(d) == [students |-> d.students, sales |-> d.sales, enrollments |-> d.enrollments]

Recovered ==
    /\ Followed
    /\ reqs[1].pc = "idle"
    /\ Canonical(db) \in {Canonical(d) : d \in last.goal}

C33_RedeliveryConverges == Stopped ~> Recovered

\* A checkout that stopped after the scholarship match was committed and
\* has been delivered again: the Enrollment is linked to the flagged Payment.
C33_Witness ==
    /\ Followed
    /\ last.ev.src = "stripe"
    /\ last.stops = 1
    /\ last.resp.status = "enrolled"
    /\ Recovered
    /\ \E x \in db.sales : \E e \in db.enrollments :
         x.scholarship = 1 /\ e.sale_id = x.id

(***************************************************************************)
(* C34: the source and status of an Enrollment are those its creating      *)
(* event gave it; a later webhook event that finds the Enrollment changes  *)
(* at most its payment link.                                               *)
(***************************************************************************)
\* The Enrollment with the payment link of another.
Relinked(e, other) == [e EXCEPT !.sale_id = other.sale_id]

\* The Enrollment with the payment link and the survey columns of another.
Resurveyed(e, other) ==
    [e EXCEPT !.sale_id = other.sale_id, !.survey = other.survey,
              !.survey_response_type = other.survey_response_type,
              !.survey_submit_date = other.survey_submit_date]

C34_OnlyPaymentLinkChanges ==
    [][\A e \in db.enrollments :
         \E after \in db'.enrollments : after.id = e.id /\ Relinked(after, e) = e]_vars

\* Amended: a completion survey event also sets the survey columns.
C34_ProvenanceAndStatusKept ==
    [][\A e \in db.enrollments :
         \E after \in db'.enrollments :
            /\ after.id = e.id
            /\ after.source = e.source
            /\ after.status = e.status
            /\ IF last'.ev.src = "completion"
               THEN Resurveyed(after, e) = e /\ after.sale_id = e.sale_id
               ELSE Relinked(after, e) = e]_vars

\* An Enrollment the tag event created, found by a checkout that linked its
\* Payment.
C34_Witness ==
    /\ last.ev.src = "stripe"
    /\ last.resp.status = "already_enrolled"
    /\ \E e \in db.enrollments :
         /\ e.enrollment_id = last.resp.enrollment_id
         /\ e.source = "kit"
         /\ e.sale_id # 0
         /\ e.survey_response_type # NullV

(***************************************************************************)
(* C35: over webhook events the Persons, Enrollments and Payments only     *)
(* grow: every record is still there after the event, under the same id    *)
(* and with the same natural key (email, enrollment key, transaction key). *)
(***************************************************************************)
\* Every row is kept, under its id and with its key column.
Kept(rows, after, key) ==
    \A x \in rows : \E y \in after : y.id = x.id /\ y[key] = x[key]

C35_RecordsOnlyGrow ==
    [][/\ Kept(db.students, db'.students, "email")
       /\ Kept(db.enrollments, db'.enrollments, "enrollment_id")
       /\ Kept(db.sales, db'.sales, "sale_id")
       /\ Cardinality(db'.students) >= Cardinality(db.students)
       /\ Cardinality(db'.enrollments) >= Cardinality(db.enrollments)
       /\ Cardinality(db'.sales) >= Cardinality(db.sales)]_vars

\* A Person, an Enrollment and a Payment that have been through a tag
\* event, a checkout, an onboarding submission and a completion survey.
C35_Witness ==
    /\ last.ev.src = "completion"
    /\ last.resp.status = "survey_saved"
    /\ \E s \in db.students : \E e \in db.enrollments : \E x \in db.sales :
         /\ e.student_id = s.id
         /\ e.sale_id = x.id
         /\ e.source = "kit"
         /\ s.onboarding_date # NullV
         /\ e.id = 1 /\ s.id = 1 /\ x.id = 1

(***************************************************************************)
(* C36: an onboarding submission changes, of the Persons it finds, only    *)
(* the attributes of the canonical set other than email, first name and    *)
(* last name, and the onboarding timestamp; a completion survey changes,   *)
(* of the Enrollments, only the survey attributes, the survey type and the *)
(* submit date.  A field map target outside these sets is not written, and *)
(* the reported fields are names of these sets.                            *)
(***************************************************************************)
Enrichable == StudentFields \ {"email", "first_name", "last_name"}

\* The targets the field map of the event's offering gives its answers.
MappedTargets(ev) == {x[1] : x \in Mapped(ev)}

C36_OnlyDeclaredAttributes ==
    [][/\ last'.ev.src = "typeform"
            => /\ \A s \in db.students :
                    \E after \in db'.students :
                       /\ after.id = s.id
                       /\ [after EXCEPT !.attrs = s.attrs,
                                        !.onboarding_date = s.onboarding_date] = s
                       /\ \A f \in DOMAIN s.attrs \ Enrichable : after.attrs[f] = s.attrs[f]
               /\ last'.resp.enriched_fields \subseteq Enrichable \cup {"onboarding_date"}
               /\ db.enrollments \subseteq db'.enrollments
               /\ db'.sales = db.sales
       /\ last'.ev.src = "completion"
            => /\ \A e \in db.enrollments :
                    \E after \in db'.enrollments :
                       /\ after.id = e.id
                       /\ Resurveyed(after, e) = e
                       /\ after.sale_id = e.sale_id
                       /\ DOMAIN after.survey = EnrollmentSurveyFields
               /\ last'.resp.updated_fields \subseteq EnrollmentSurveyFields
               /\ Cardinality(db'.enrollments) = Cardinality(db.enrollments)
               /\ db'.students = db.students
               /\ db'.sales = db.sales]_vars

\* An onboarding submission with an answer that the field map sends to
\* student_number, for a Person that exists: the mapped country is applied
\* and reported, the number is the Person's own.
C36_Witness ==
    /\ last.ev.src = "typeform"
    /\ "student_number" \in MappedTargets(last.ev)
    /\ last.resp.code = 200
    /\ "country" \in last.resp.enriched_fields
    /\ \E s \in db.students :
         /\ s.attrs["country"] = Val(<<"Peru">>)
         /\ s.student_number = 1
         /\ s.attrs["closest_city"] = NullV

(***************************************************************************)
(* C37: a Payment becomes flagged scholarship-funded, and an application   *)
(* becomes marked enrolled, only in a checkout event that finds an         *)
(* application with status accepted for the event's normalized email and   *)
(* offering; the application marked is such an application.  A pending or  *)
(* rejected application, or one for another email or offering, is not      *)
(* marked and flags nothing.                                               *)
(***************************************************************************)
\* The applications an event's buyer holds accepted for the event's offering.
AcceptedMatches(d, ev) ==
    {a \in d.apps : /\ a.status = "accepted"
                    /\ CleanEmail(a.email) = CleanEmail(EventEmail(ev))
                    /\ a.product_id \in EventOfferings(ev)}

NewlyFlagged == {x \in db'.sales : x.scholarship = 1 /\ x \notin db.sales}

NewlyMarked ==
    {a \in db.apps : ~a.enrolled /\ \E b \in db'.apps : b.id = a.id /\ b.enrolled}

C37_MatchNeedsAcceptedApplication ==
    [][/\ \A a \in db'.apps : a.enrolled => \E b \in db.apps : b.id = a.id
       /\ NewlyFlagged # {} \/ NewlyMarked # {}
            => /\ last'.ev.src = "stripe"
               /\ NewlyMarked \subseteq AcceptedMatches(db, last'.ev)
               /\ AcceptedMatches(db, last'.ev) # {}
               /\ \A x \in NewlyFlagged :
                    /\ x.sale_id = StripeSaleKey(last'.ev.body.object.id)
                    /\ x.buyer_email = CleanEmail(EventEmail(last'.ev))]_vars

\* A checkout for a buyer whose application for the offering is rejected:
\* the Payment is stored without the flag, the application is not marked.
C37_Witness ==
    /\ last.ev.src = "stripe"
    /\ last.resp.status = "enrolled"
    /\ \E a \in db.apps : \E x \in db.sales :
         /\ a.status = "rejected"
         /\ ~a.enrolled
         /\ a.email = x.buyer_email
         /\ a.product_id = x.product_id
         /\ x.sale_id = StripeSaleKey(last.ev.body.object.id)
         /\ x.scholarship = 0

(***************************************************************************)
(* C38: with a dashboard password configured, a request to a path outside  *)
(* the public prefixes reaches its handler only with Basic credentials     *)
(* whose password is the configured one, and is answered 401 with the      *)
(* handler not run otherwise; a request under /api/webhook/ reaches its    *)
(* handler whatever credentials it carries.                                *)
(***************************************************************************)
UnderPublicPrefix(path) ==
    \/ StartsWith(path, <<"/api", "/webhook", "/">>)
    \/ StartsWith(path, <<"/docs">>)
    \/ StartsWith(path, <<"/openapi.json">>)
    \/ StartsWith(path, <<"/assets", "/">>)

\* The header is Basic, its value decodes, and what follows the first colon
\* of the decoded text is the password.
CarriesPassword(auth, password) ==
    /\ Len(auth) = 2
    /\ auth[1] = "Basic "
    /\ auth[2][1] = "b64"
    /\ \E user \in {<<>>, <<"u">>, <<"p", "w">>} : auth[2][2] = user \o <<":">> \o password

C38_DashboardNeedsPassword ==
    [][LET req == last'.ev
       IN /\ (cfg.dashboard # <<>> /\ ~UnderPublicPrefix(req.path))
               => IF CarriesPassword(req.auth, cfg.dashboard)
                  THEN last'.handled
                  ELSE /\ ~last'.handled
                       /\ last'.resp.code = 401
                       /\ db' = db
          /\ StartsWith(req.path, <<"/api", "/webhook", "/">>)
               => last'.handled /\ last'.resp.code # 401]_vars

\* With the password configured: a Person created through the management
\* API, and then a request for it without the password, answered 401.
C38_Witness ==
    /\ last.resp.code = 401
    /\ cfg.dashboard # <<>>
    /\ last.ev.path = StudentsPath
    /\ last.ev.auth = <<"Basic ", B64(<<"u", ":", ":", "p", "w">>)>>
    /\ ~last.handled
    /\ \E s \in db.students : s.email = EmailB

====
